---- MODULE Spec2Model ----
(***************************************************************************)
(* Model of the litemem memory-state engine: the message normalizer, the   *)
(* message buffer of LiteMemory.addMemory, the VectorStore (insert,        *)
(* update, delete, search) and the two consolidation phases                *)
(* (constructUpdateQueueAllEntries, offlineUpdateAllEntries).              *)
(*                                                                         *)
(* Representation choices                                                  *)
(*  - An instant is an integer number of milliseconds since the epoch.     *)
(*    floatTimeStamp (seconds, a float in the code) is kept in             *)
(*    thousandths of a second, so that getTime() / 1000 stays an integer;  *)
(*    order and the value zero are preserved by the scaling.               *)
(*  - An ISO string is the record [iso |-> ms] (toISOString keeps          *)
(*    millisecond precision, new Date(iso).getTime() gives it back).       *)
(*  - A cosine score dot / (sqrt(normA) * sqrt(normB)) is the exact pair   *)
(*    [d |-> dot, n |-> normA * normB]; scores are compared by             *)
(*    cross-multiplication of signed squares, without rounding.            *)
(*  - Ids come from crypto.randomUUID(); the model draws them from a       *)
(*    counter, ie. never twice.                                            *)
(*  - The store is the sequence of rows of table memories in rowid order.  *)
(***************************************************************************)
EXTENDS Integers, Sequences, FiniteSets, TLC

(***************************************************************************)
(* Bounds                                                                  *)
(***************************************************************************)
MaxRecords == 2
MaxBatch == 2
MaxFacts == 1
MaxBumps == 1
MaxSeed == 2
MaxCalls == 2
MaxReplyFacts == 2

(***************************************************************************)
(* Program constants                                                       *)
(***************************************************************************)
OffsetMs == 500
BufferTrigger == 10

(***************************************************************************)
(* Small helpers                                                           *)
(***************************************************************************)
Abs(x) == IF x < 0 THEN 0 - x ELSE x

\* x * |x|: strictly monotone in x, used to compare values under a square root
SSq(x) == x * Abs(x)

Min(a, b) == IF a < b THEN a ELSE b

\* Array.prototype.slice(0, k) for k >= 0
Slice(s, k) == SubSeq(s, 1, Min(k, Len(s)))

SeqsUpTo(S, k) == UNION { [1..m -> S] : m \in 0..k }

(***************************************************************************)
(* Embeddings and cosine similarity                                        *)
(***************************************************************************)
\* vectors the embedding provider may return
Vectors == { <<1, 0>>, <<4, 1>>, <<0, 1>> }

\* query vectors of direct VectorStore.search calls
QueryVectors == { <<1, 0>>, <<0, 1>>, <<0, 0>> }

\* new Float32Array(embedding): exact for integers of magnitude up to 2^24,
\* rounded to the nearest representable value (a multiple of 2) up to 2^25
Fround(x) ==
  IF Abs(x) <= 16777216 THEN x
  ELSE IF x % 2 = 0 THEN x
  ELSE IF ((x - 1) \div 2) % 2 = 0 THEN x - 1 ELSE x + 1

embeddingToBlob(e) == [i \in DOMAIN e |-> Fround(e[i])]

blobToEmbedding(b) == b

RECURSIVE DotFrom(_, _, _)
DotFrom(a, b, i) ==
  IF i > Len(a) THEN 0 ELSE a[i] * b[i] + DotFrom(a, b, i + 1)

cosineSimilarity(a, b) ==
  LET dotProduct == DotFrom(a, b, 1)
      normA == DotFrom(a, a, 1)
      normB == DotFrom(b, b, 1)
  IN IF normA * normB = 0 THEN [d |-> 0, n |-> 1]
     ELSE [d |-> dotProduct, n |-> normA * normB]

\* s1 >= s2 on scores
ScoreGE(s1, s2) == SSq(s1.d) * s2.n >= SSq(s2.d) * s1.n

ScoreGT(s1, s2) == SSq(s1.d) * s2.n > SSq(s2.d) * s1.n

\* a threshold p / q (q > 0) as a score
Ratio(p, q) == [d |-> p, n |-> q * q]

(***************************************************************************)
(* Records of table memories                                               *)
(***************************************************************************)
ToISOString(ms) == [iso |-> ms]

DateParse(isoString) == isoString.iso

NoEmbedding == [some |-> FALSE, v |-> <<>>]

SomeEmbedding(v) == [some |-> TRUE, v |-> v]

createMemoryEntry(id, partial) ==
  LET defaults == [ id |-> id,
                    timeStamp |-> ToISOString(0),
                    floatTimeStamp |-> 0,
                    weekday |-> "",
                    category |-> "",
                    subcategory |-> "",
                    memory |-> "",
                    originalMemory |-> "",
                    speakerId |-> "",
                    speakerName |-> "",
                    hitTime |-> 0,
                    updateQueue |-> <<>> ]
  IN [f \in DOMAIN defaults |->
        IF f \in DOMAIN partial THEN partial[f] ELSE defaults[f]]

StoreIds(st) == { st[i].id : i \in DOMAIN st }

RowOf(st, id) == st[CHOOSE i \in DOMAIN st : st[i].id = id]

getAll(st) == [i \in DOMAIN st |-> [st[i] EXCEPT !.embedding = blobToEmbedding(@)]]

count(st) == Len(st)

\* INSERT OR REPLACE: a row with the same id is removed, the new row is appended
insert(st, entry, embedding) ==
  LET row == [f \in (DOMAIN entry) \cup {"embedding"} |->
                IF f = "embedding" THEN embeddingToBlob(embedding) ELSE entry[f]]
  IN Append(SelectSeq(st, LAMBDA r : r.id # entry.id), row)

\* delete() that also takes the id out of the queues of the other rows
deleteAndUnlink(st, id) ==
  LET kept == SelectSeq(st, LAMBDA r : r.id # id)
  IN [i \in DOMAIN kept |->
        [kept[i] EXCEPT !.updateQueue = SelectSeq(@, LAMBDA c : c.id # id)]]

delete(st, id) == SelectSeq(st, LAMBDA r : r.id # id)

\* update() with originalMemory following the memory column
updateWithOrigin(st, id, updates, embedding) ==
  LET setClauses == (DOMAIN updates) \cap {"memory", "category", "subcategory", "hitTime", "updateQueue"}
      patch(r) == [f \in DOMAIN r |->
                     IF f \in setClauses THEN updates[f]
                     ELSE IF f = "originalMemory" /\ "memory" \in setClauses
                          THEN updates.memory
                     ELSE IF f = "embedding" /\ embedding.some
                          THEN embeddingToBlob(embedding.v)
                          ELSE r[f]]
  IN IF setClauses = {} /\ ~embedding.some THEN st
     ELSE [i \in DOMAIN st |-> IF st[i].id = id THEN patch(st[i]) ELSE st[i]]

\* update() as an upsert: an id that is not stored gets a row
updateOrInsert(st, id, updates, embedding) ==
  LET setClauses == (DOMAIN updates) \cap {"memory", "category", "subcategory", "hitTime", "updateQueue"}
      patch(r) == [f \in DOMAIN r |->
                     IF f \in setClauses THEN updates[f]
                     ELSE IF f = "embedding" /\ embedding.some
                          THEN embeddingToBlob(embedding.v)
                          ELSE r[f]]
  IN IF setClauses = {} /\ ~embedding.some THEN st
     ELSE IF id \in StoreIds(st)
          THEN [i \in DOMAIN st |-> IF st[i].id = id THEN patch(st[i]) ELSE st[i]]
          ELSE insert(st, createMemoryEntry(id, updates), embedding.v)

\* update() setting every column the partial names
updateUnfiltered(st, id, updates, embedding) ==
  LET patch(r) == [f \in DOMAIN r |->
                     IF f \in DOMAIN updates THEN updates[f]
                     ELSE IF f = "embedding" /\ embedding.some
                          THEN embeddingToBlob(embedding.v)
                          ELSE r[f]]
  IN IF DOMAIN updates = {} /\ ~embedding.some THEN st
     ELSE [i \in DOMAIN st |-> IF st[i].id = id THEN patch(st[i]) ELSE st[i]]

\* update() that also counts the edit in the row's hitTime
updateCountingEdits(st, id, updates, embedding) ==
  LET setClauses == (DOMAIN updates) \cap {"memory", "category", "subcategory", "hitTime", "updateQueue"}
      patch(r) == [f \in DOMAIN r |->
                     IF f \in setClauses THEN updates[f]
                     ELSE IF f = "hitTime" THEN r[f] + 1
                     ELSE IF f = "embedding" /\ embedding.some
                          THEN embeddingToBlob(embedding.v)
                          ELSE r[f]]
  IN IF setClauses = {} /\ ~embedding.some THEN st
     ELSE [i \in DOMAIN st |-> IF st[i].id = id THEN patch(st[i]) ELSE st[i]]

\* the columns update() is willing to set, in the order of its if statements
UpdatableFields == {"memory", "category", "subcategory", "hitTime", "updateQueue"}

update(st, id, updates, embedding) ==
  LET setClauses == (DOMAIN updates) \cap UpdatableFields
      patch(r) == [f \in DOMAIN r |->
                     IF f \in setClauses THEN updates[f]
                     ELSE IF f = "embedding" /\ embedding.some
                          THEN embeddingToBlob(embedding.v)
                          ELSE r[f]]
  IN IF setClauses = {} /\ ~embedding.some THEN st
     ELSE [i \in DOMAIN st |-> IF st[i].id = id THEN patch(st[i]) ELSE st[i]]

(***************************************************************************)
(* VectorStore.search                                                      *)
(***************************************************************************)
\* RetrieveFilters; a has* flag tells whether the key is present
NoFilters ==
  [hasGte |-> FALSE, gte |-> 0, hasLte |-> FALSE, lte |-> 0,
   hasSpeaker |-> FALSE, speakerId |-> "", hasCategory |-> FALSE, category |-> ""]

LteFilter(ts) == [NoFilters EXCEPT !.hasLte = TRUE, !.lte = ts]

\* JavaScript truthiness of a number and of a string
TruthyNum(x) == x # 0

TruthyStr(s) == s # ""

\* TRUE when none of the four 'continue' statements of the scan fires
PassesFilters(entry, f) ==
  /\ ~(f.hasGte /\ TruthyNum(f.gte) /\ entry.floatTimeStamp < f.gte)
  /\ ~(f.hasLte /\ TruthyNum(f.lte) /\ entry.floatTimeStamp > f.lte)
  /\ ~(f.hasSpeaker /\ TruthyStr(f.speakerId) /\ entry.speakerId # f.speakerId)
  /\ ~(f.hasCategory /\ TruthyStr(f.category) /\ entry.category # f.category)

\* Array.prototype.sort((a, b) => b.score - a.score): stable, descending
RECURSIVE InsertDesc(_, _)
InsertDesc(sorted, x) ==
  IF sorted = <<>> THEN <<x>>
  ELSE IF ScoreGE(Head(sorted).score, x.score)
       THEN <<Head(sorted)>> \o InsertDesc(Tail(sorted), x)
       ELSE <<x>> \o sorted

RECURSIVE SortDesc(_)
SortDesc(s) ==
  IF s = <<>> THEN <<>>
  ELSE InsertDesc(SortDesc(SubSeq(s, 1, Len(s) - 1)), s[Len(s)])

search(st, queryEmbedding, limit, filters) ==
  LET allEntries == getAll(st)
      kept == SelectSeq(allEntries, LAMBDA e : PassesFilters(e, filters))
      scored == [i \in DOMAIN kept |->
                   [id |-> kept[i].id,
                    score |-> cosineSimilarity(queryEmbedding, kept[i].embedding),
                    payload |-> kept[i]]]
  IN Slice(SortDesc(scored), limit)

(***************************************************************************)
(* Consolidation phase 1: LiteMemory.constructUpdateQueueAllEntries        *)
(***************************************************************************)
\* the candidates without the filter on the record's own id
QueueCandidatesWithSelf(hits, entry, keepTopN) ==
  LET firstN == Slice(hits, keepTopN)
  IN [i \in DOMAIN firstN |-> [id |-> firstN[i].id, score |-> firstN[i].score]]

\* the candidates with the slice taken before the record itself is removed
QueueCandidatesSliceFirst(hits, entry, keepTopN) ==
  LET firstN == Slice(hits, keepTopN)
      others == SelectSeq(firstN, LAMBDA h : h.id # entry.id)
  IN [i \in DOMAIN others |-> [id |-> others[i].id, score |-> others[i].score]]

\* hits.filter(h => h.id !== entry.id).slice(0, keepTopN).map(...)
QueueCandidates(hits, entry, keepTopN) ==
  LET others == SelectSeq(hits, LAMBDA h : h.id # entry.id)
      firstN == Slice(others, keepTopN)
  IN [i \in DOMAIN firstN |-> [id |-> firstN[i].id, score |-> firstN[i].score]]

\* the loop leaving alone the records that already have a queue
RECURSIVE ConstructLoopSkippingQueued(_, _, _, _, _)
ConstructLoopSkippingQueued(allEntries, i, st, topK, keepTopN) ==
  IF i > Len(allEntries) THEN st
  ELSE LET entry == allEntries[i]
           hits == search(st, entry.embedding, topK, LteFilter(entry.floatTimeStamp))
           candidates == QueueCandidates(hits, entry, keepTopN)
       IN ConstructLoopSkippingQueued(allEntries, i + 1,
                        IF entry.updateQueue # << >> THEN st
                        ELSE update(st, entry.id, [updateQueue |-> candidates], NoEmbedding),
                        topK, keepTopN)

\* the loop counting a hit on every record it gives a queue
RECURSIVE ConstructLoopCountingHits(_, _, _, _, _)
ConstructLoopCountingHits(allEntries, i, st, topK, keepTopN) ==
  IF i > Len(allEntries) THEN st
  ELSE LET entry == allEntries[i]
           hits == search(st, entry.embedding, topK, LteFilter(entry.floatTimeStamp))
           candidates == QueueCandidates(hits, entry, keepTopN)
       IN ConstructLoopCountingHits(allEntries, i + 1,
                        update(st, entry.id,
                               [updateQueue |-> candidates, hitTime |-> entry.hitTime + 1],
                               NoEmbedding),
                        topK, keepTopN)

\* the body of the for loop, from entry number i of the snapshot on
RECURSIVE ConstructLoop(_, _, _, _, _)
ConstructLoop(allEntries, i, st, topK, keepTopN) ==
  IF i > Len(allEntries) THEN st
  ELSE LET entry == allEntries[i]
           hits == search(st, entry.embedding, topK, LteFilter(entry.floatTimeStamp))
           candidates == QueueCandidates(hits, entry, keepTopN)
       IN ConstructLoop(allEntries, i + 1,
                        update(st, entry.id, [updateQueue |-> candidates], NoEmbedding),
                        topK, keepTopN)

constructUpdateQueueAllEntries(st, topK, keepTopN) ==
  ConstructLoop(getAll(st), 1, st, topK, keepTopN)

(***************************************************************************)
(* Consolidation phase 2: LiteMemory.offlineUpdateAllEntries               *)
(***************************************************************************)
\* Raw replies of the chat endpoint to the update prompt: the call fails,
\* the content is not JSON, or it is a JSON object with these fields
\* ("" stands for an absent field).
ErrorReply == [kind |-> "error", action |-> "", new_memory |-> ""]

JsonReply(action, newMemory) == [kind |-> "json", action |-> action, new_memory |-> newMemory]

IgnoreReply == JsonReply("ignore", "")

DeleteReply == JsonReply("delete", "")

MergeReply == JsonReply("update", "merged")

UpdateReplies == { IgnoreReply, DeleteReply, MergeReply }

\* a content that JSON.parse rejects
NotJsonReply == [kind |-> "notJson", action |-> "", new_memory |-> ""]

\* JSON objects without an action, or with one phase 2 does not know
NoActionReply == JsonReply("", "merged")

UnknownActionReply == JsonReply("merge", "merged")

\* an update decision without a new_memory, or with an empty one
UpdateNoTextReply == JsonReply("update", "")

FailedReplies == { ErrorReply, NotJsonReply }

OddReplies == { NoActionReply, UnknownActionReply }

\* callUpdateLlm reading a missing action as an update
callUpdateLlmDefaultUpdate(reply) ==
  IF reply.kind # "json" THEN [action |-> "ignore", newMemory |-> ""]
  ELSE IF ~TruthyStr(reply.action)
  THEN [action |-> "update", newMemory |-> reply.new_memory]
  ELSE [action |-> reply.action, newMemory |-> reply.new_memory]

callUpdateLlm(reply) ==
  IF reply.kind # "json" THEN [action |-> "ignore", newMemory |-> ""]
  ELSE IF ~TruthyStr(reply.action) THEN [action |-> "ignore", newMemory |-> ""]
  ELSE [action |-> reply.action, newMemory |-> reply.new_memory]

\* the other direction: the records the target's own queue names with a
\* score of at least the threshold
candidateSourcesOfQueue(allEntries, entry, scoreThreshold) ==
  SelectSeq(allEntries,
            LAMBDA other : \E i \in DOMAIN entry.updateQueue :
                              /\ entry.updateQueue[i].id = other.id
                              /\ ScoreGE(entry.updateQueue[i].score, scoreThreshold))

\* the sources with a score above the threshold only
candidateSourcesAbove(allEntries, entry, scoreThreshold) ==
  SelectSeq(allEntries,
            LAMBDA other : \E i \in DOMAIN other.updateQueue :
                              /\ other.updateQueue[i].id = entry.id
                              /\ ScoreGT(other.updateQueue[i].score, scoreThreshold))

\* the records of the snapshot whose queue holds the target with a score
\* of at least the threshold
candidateSources(allEntries, entry, scoreThreshold) ==
  SelectSeq(allEntries,
            LAMBDA other : \E i \in DOMAIN other.updateQueue :
                              /\ other.updateQueue[i].id = entry.id
                              /\ ScoreGE(other.updateQueue[i].score, scoreThreshold))

\* 'Apply action' without the delete branch
ApplyActionNoDelete(st, id, result) ==
  IF result.action = "update" /\ TruthyStr(result.newMemory)
  THEN update(st, id, [memory |-> result.newMemory], NoEmbedding)
  ELSE st

\* 'Apply action' with delete as the default branch
ApplyActionDeleteDefault(st, id, result) ==
  IF result.action = "update" /\ TruthyStr(result.newMemory)
  THEN update(st, id, [memory |-> result.newMemory], NoEmbedding)
  ELSE delete(st, id)

\* 'Apply action' writing the new memory of an update whatever it is
ApplyActionAnyUpdate(st, id, result) ==
  IF result.action = "delete" THEN delete(st, id)
  ELSE IF result.action = "update"
       THEN update(st, id, [memory |-> result.newMemory], NoEmbedding)
       ELSE st

\* the 'Apply action' statement
ApplyAction(st, id, result) ==
  IF result.action = "delete" THEN delete(st, id)
  ELSE IF result.action = "update" /\ TruthyStr(result.newMemory)
       THEN update(st, id, [memory |-> result.newMemory], NoEmbedding)
       ELSE st

\* the loop with the sources of a target read from the store as the run
\* has changed it so far, instead of from the snapshot
RECURSIVE OfflineLoopLive(_, _, _, _, _)
OfflineLoopLive(allEntries, i, acc, llm, scoreThreshold) ==
  IF i > Len(allEntries) THEN acc
  ELSE LET entry == allEntries[i]
           sources == candidateSources(getAll(acc.st), entry, scoreThreshold)
           result == callUpdateLlm(llm[entry.id])
           step == [st |-> ApplyAction(acc.st, entry.id, result),
                    deleted |-> IF result.action = "delete"
                                THEN acc.deleted \cup {entry.id} ELSE acc.deleted,
                    log |-> Append(acc.log,
                                   [target |-> entry.id,
                                    targetMemory |-> entry.memory,
                                    sources |-> [j \in DOMAIN sources |-> sources[j].id],
                                    action |-> result.action])]
       IN OfflineLoopLive(allEntries, i + 1,
                          IF sources = <<>> THEN acc ELSE step,
                          llm, scoreThreshold)

\* the loop ending the run at the first target whose LLM call fails
RECURSIVE OfflineLoopAbort(_, _, _, _, _)
OfflineLoopAbort(allEntries, i, acc, llm, scoreThreshold) ==
  IF i > Len(allEntries) THEN acc
  ELSE LET entry == allEntries[i]
           sources == candidateSources(allEntries, entry, scoreThreshold)
           result == callUpdateLlm(llm[entry.id])
           step == [st |-> ApplyAction(acc.st, entry.id, result),
                    deleted |-> IF result.action = "delete"
                                THEN acc.deleted \cup {entry.id} ELSE acc.deleted,
                    log |-> Append(acc.log,
                                   [target |-> entry.id,
                                    targetMemory |-> entry.memory,
                                    sources |-> [j \in DOMAIN sources |-> sources[j].id],
                                    action |-> result.action])]
       IN IF sources # <<>> /\ llm[entry.id].kind # "json" THEN acc
          ELSE OfflineLoopAbort(allEntries, i + 1,
                                IF sources = <<>> THEN acc ELSE step,
                                llm, scoreThreshold)

\* The for loop over the snapshot, from entry number i on.  llm maps a
\* target id to the raw reply of the chat endpoint for that target.  The
\* result carries the store, the ids deleted and one log entry per LLM call.
RECURSIVE OfflineLoop(_, _, _, _, _)
OfflineLoop(allEntries, i, acc, llm, scoreThreshold) ==
  IF i > Len(allEntries) THEN acc
  ELSE LET entry == allEntries[i]
           sources == candidateSources(allEntries, entry, scoreThreshold)
           result == callUpdateLlm(llm[entry.id])
           step == [st |-> ApplyAction(acc.st, entry.id, result),
                    deleted |-> IF result.action = "delete"
                                THEN acc.deleted \cup {entry.id} ELSE acc.deleted,
                    log |-> Append(acc.log,
                                   [target |-> entry.id,
                                    targetMemory |-> entry.memory,
                                    sources |-> [j \in DOMAIN sources |-> sources[j].id],
                                    action |-> result.action])]
       IN OfflineLoop(allEntries, i + 1,
                      IF sources = <<>> THEN acc ELSE step,
                      llm, scoreThreshold)

offlineUpdateAllEntries(st, allEntries, llm, scoreThreshold) ==
  OfflineLoop(allEntries, 1, [st |-> st, deleted |-> {}, log |-> <<>>],
              llm, scoreThreshold)

\* SELECT * FROM memories has no ORDER BY: the rows in the order p
ScanOrder(st, p) == [i \in DOMAIN st |-> getAll(st)[p[i]]]

(***************************************************************************)
(* MessageNormalizer and assignSequenceNumbers                             *)
(***************************************************************************)
\* session markers of the input messages ("" is a missing timeStamp)
MarkerEpoch == "1970-01-01T00:00:00.000Z"

MarkerSession == "1970/01/01 (Thu) 00:00:01"

MarkerGarbage == "not a date"

ValidMarkers == { MarkerEpoch, MarkerSession }

\* No Date in lastTimestampMap for a marker (instants of the model are >= 0)
NoDate == -1

\* MarkerSession matches SESSION_RE and is read as a local time (UTC here);
\* MarkerEpoch does not match (no weekday in parentheses) and goes through
\* the new Date(rawTs) fallback, the weekday coming from getDay().
parseSessionTimestamp(rawTs) ==
  IF rawTs = MarkerSession THEN [ok |-> TRUE, date |-> 1000, weekday |-> "Thu"]
  ELSE IF rawTs = MarkerEpoch THEN [ok |-> TRUE, date |-> 0, weekday |-> "Thu"]
  ELSE [ok |-> FALSE, date |-> 0, weekday |-> ""]

\* The for loop of normalizeMessages from message number i on; threw tells
\* that one of the two throw statements was reached, map is lastTimestampMap
\* as the loop left it.
\* the loop without the per-marker offset: every message gets the parsed
\* instant of its marker
RECURSIVE NormalizeLoopNoBump(_, _, _, _)
NormalizeLoopNoBump(messageList, i, map, enrichedList) ==
  IF i > Len(messageList)
  THEN [threw |-> FALSE, map |-> map, out |-> enrichedList]
  ELSE LET msg == messageList[i]
           rawTs == msg.timeStamp
           parsed == parseSessionTimestamp(rawTs)
           newDate == parsed.date
           enriched == [ role |-> msg.role,
                         content |-> msg.content,
                         speakerId |-> msg.speakerId,
                         speakerName |-> msg.speakerName,
                         sessionTime |-> rawTs,
                         timeStamp |-> ToISOString(newDate),
                         weekday |-> parsed.weekday,
                         sequenceNumber |-> -1 ]
       IN IF ~TruthyStr(rawTs) \/ ~parsed.ok
          THEN [threw |-> TRUE, map |-> map, out |-> enrichedList]
          ELSE NormalizeLoopNoBump(messageList, i + 1,
                                   [map EXCEPT ![rawTs] = newDate],
                                   Append(enrichedList, enriched))

RECURSIVE NormalizeLoop(_, _, _, _)
NormalizeLoop(messageList, i, map, enrichedList) ==
  IF i > Len(messageList)
  THEN [threw |-> FALSE, map |-> map, out |-> enrichedList]
  ELSE LET msg == messageList[i]
           rawTs == msg.timeStamp
           parsed == parseSessionTimestamp(rawTs)
           lastDate == map[rawTs]
           newDate == IF lastDate = NoDate THEN parsed.date ELSE lastDate + OffsetMs
           enriched == [ role |-> msg.role,
                         content |-> msg.content,
                         speakerId |-> msg.speakerId,
                         speakerName |-> msg.speakerName,
                         sessionTime |-> rawTs,
                         timeStamp |-> ToISOString(newDate),
                         weekday |-> parsed.weekday,
                         sequenceNumber |-> -1 ]
       IN IF ~TruthyStr(rawTs) \/ ~parsed.ok
          THEN [threw |-> TRUE, map |-> map, out |-> enrichedList]
          ELSE NormalizeLoop(messageList, i + 1,
                             [map EXCEPT ![rawTs] = newDate],
                             Append(enrichedList, enriched))

normalizeMessages(map, messages) == NormalizeLoop(messages, 1, map, <<>>)

assignSequenceNumbers(messages) ==
  [i \in DOMAIN messages |-> [messages[i] EXCEPT !.sequenceNumber = i - 1]]

(***************************************************************************)
(* LiteMemory.addMemory                                                    *)
(***************************************************************************)
Policies == { "user_only", "assistant_only", "hybrid" }

allowedRoles(policy) ==
  IF policy = "user_only" THEN {"user"}
  ELSE IF policy = "assistant_only" THEN {"assistant"}
  ELSE {"user", "assistant"}

\* the role filter keeping every message
filterMessagesKeepAll(policy, messages) == messages

filterMessagesByRole(policy, messages) ==
  SelectSeq(messages, LAMBDA msg : msg.role \in allowedRoles(policy))

\* Math.floor(sequenceNumber / 2)
SourceIdOf(msg) == msg.sequenceNumber \div 2

\* concatenateMessages: the lines of the topic text, one per message of the
\* segment whose role the policy allows.  A line shows the time prefix (when
\* timeStamp and weekday are both non-empty), the source id, the speaker
\* name, or the role when the name is empty, and the content.
concatenateMessages(segment, policy) ==
  LET kept == SelectSeq(segment, LAMBDA msg : msg.role \in allowedRoles(policy))
  IN [ i \in DOMAIN kept |->
         [ timePrefix |-> IF kept[i].weekday # ""
                          THEN << kept[i].timeStamp, kept[i].weekday >>
                          ELSE << >>,
           sourceId |-> SourceIdOf(kept[i]),
           speaker |-> IF TruthyStr(kept[i].speakerName) THEN kept[i].speakerName
                       ELSE kept[i].role,
           content |-> kept[i].content ] ]

\* Array.prototype.find: the first message citing this source id, if any
\* the search comparing the sequence number itself with the source id
FindSourceBySequence(messages, sourceId) ==
  LET hits == SelectSeq(messages, LAMBDA msg : msg.sequenceNumber = sourceId)
  IN IF hits = <<>> THEN [found |-> FALSE, msg |-> <<>>]
     ELSE [found |-> TRUE, msg |-> Head(hits)]

FindSource(messages, sourceId) ==
  LET hits == SelectSeq(messages, LAMBDA msg : SourceIdOf(msg) = sourceId)
  IN IF hits = <<>> THEN [found |-> FALSE, msg |-> <<>>]
     ELSE [found |-> TRUE, msg |-> Head(hits)]

\* the outcome of one embedder.embed call: a vector, or a rejected promise
EmbedFail == <<>>

EmbedOutcomes == Vectors \cup { EmbedFail }

\* two successive readings of the clock (new Date(), then Date.now())
NowPairs == { <<2000, 2000>>, <<2000, 2001>> }

\* the entry createMemoryEntries builds for one fact
EntryForFact(id, fact, messages, now) ==
  LET src == FindSource(messages, fact.sourceId)
  IN createMemoryEntry(id,
       [ memory |-> fact.fact,
         originalMemory |-> fact.fact,
         timeStamp |-> IF src.found THEN src.msg.timeStamp ELSE ToISOString(now[1]),
         floatTimeStamp |-> IF src.found THEN DateParse(src.msg.timeStamp) ELSE now[2],
         weekday |-> IF src.found THEN src.msg.weekday ELSE "",
         speakerId |-> IF src.found THEN src.msg.speakerId ELSE "",
         speakerName |-> IF src.found THEN src.msg.speakerName ELSE "" ])

\* the loop putting each new row in front of the rows stored so far
RECURSIVE CreateLoopNewestFirst(_, _, _, _, _, _)
CreateLoopNewestFirst(facts, i, messages, acc, embs, nows) ==
  IF i > Len(facts) THEN acc
  ELSE LET entry == EntryForFact(acc.nextId, facts[i], messages, nows[i])
           appended == insert(acc.st, entry, embs[i])
       IN IF embs[i] = EmbedFail
          THEN [acc EXCEPT !.threw = TRUE]
          ELSE CreateLoopNewestFirst(facts, i + 1, messages,
                          [ st |-> << appended[Len(appended)] >> \o
                                     SubSeq(appended, 1, Len(appended) - 1),
                            nextId |-> acc.nextId + 1,
                            entries |-> Append(acc.entries, entry),
                            threw |-> FALSE ],
                          embs, nows)

\* The for loop of createMemoryEntries from fact number i on.  embs[i] is
\* the outcome of the embed call for fact i, nows[i] the clock readings.
\* threw: the embed call rejected and the exception leaves the loop; the
\* entry built for the fact is dropped, and its id with it.
RECURSIVE CreateLoop(_, _, _, _, _, _)
CreateLoop(facts, i, messages, acc, embs, nows) ==
  IF i > Len(facts) THEN acc
  ELSE LET entry == EntryForFact(acc.nextId, facts[i], messages, nows[i])
       IN IF embs[i] = EmbedFail
          THEN [acc EXCEPT !.threw = TRUE]
          ELSE CreateLoop(facts, i + 1, messages,
                          [ st |-> insert(acc.st, entry, embs[i]),
                            nextId |-> acc.nextId + 1,
                            entries |-> Append(acc.entries, entry),
                            threw |-> FALSE ],
                          embs, nows)

createMemoryEntries(st, id, facts, messages, embs, nows) ==
  CreateLoop(facts, 1, messages,
             [st |-> st, nextId |-> id, entries |-> <<>>, threw |-> FALSE],
             embs, nows)

\* Replies of the chat endpoint to the extraction prompt, after
\* cleanResponse: the call fails or the content does not parse (no fact),
\* or the list of (sourceId, fact) items.
FactItems == { [sourceId |-> 0, fact |-> "f1"], [sourceId |-> 1, fact |-> "f2"] }

ExtractReplies ==
  { [kind |-> "error", facts |-> <<>>] }
    \cup { [kind |-> "facts", facts |-> fs] : fs \in SeqsUpTo(FactItems, MaxFacts) }

\* the buffer when the messages normalized before a throw are pushed too
BufferAfterPushPartial(buffer, norm) ==
  buffer \o assignSequenceNumbers(norm.out)

\* the buffer after the 'Add to buffer' statement; a throw of the
\* normalizer leaves addMemory before it
BufferAfterPush(buffer, norm) ==
  IF norm.threw THEN buffer
  ELSE buffer \o assignSequenceNumbers(norm.out)

\* What generateResponse gives metaTextExtract: a rejection ("throws"), or a
\* response text.  A text is described by what JSON.parse makes of it once
\* the code fence, if any, is off: no JSON at all ("notJson"), null, a scalar,
\* an object without a data member ("object"), an object whose data is not
\* an array ("dataNotArray"), an object with a data array ("data"), or a bare
\* array ("array").  items are the (source_id, fact) items the text holds,
\* wherever it holds them.
ResponseKinds ==
  { "throws", "notJson", "null", "scalar", "object", "dataNotArray", "data", "array" }

\* JSON values of a reply item's source_id member: a number, a string, null
JsonNumber(n) == [type |-> "number", value |-> n]

JsonString(text) == [type |-> "string", value |-> text]

JsonNull == [type |-> "null", value |-> 0]

\* the number Number() gives for a value that is no number
NaN == -1

\* Number(value): a number is itself, null is 0, a string is the number it
\* spells (the empty string 0) or NaN
Number(v) ==
  IF v.type = "number" THEN v.value
  ELSE IF v.type = "null" THEN 0
  ELSE IF v.value = "" THEN 0
  ELSE IF v.value = "0" THEN 0
  ELSE IF v.value = "1" THEN 1
  ELSE NaN

ExtractionItems == << [source_id |-> JsonNumber(0), fact |-> "f1"] >>

LlmResponses ==
  { [kind |-> "throws", fenced |-> FALSE, items |-> << >>] } \cup
  [ kind : ResponseKinds \ {"throws"}, fenced : BOOLEAN, items : {ExtractionItems} ]

\* response.trim().match(codeBlockPattern): the text inside the fence
StripFence(response) == [response EXCEPT !.fenced = FALSE]

\* JSON.parse throws on a text that is no JSON; a fenced text is none
JsonParses(text) == ~text.fenced /\ text.kind # "notJson"

\* the items mapped to { sourceId: Number(item.source_id), fact: item.fact }
MapItems(items) ==
  [i \in DOMAIN items |-> [sourceId |-> Number(items[i].source_id), fact |-> items[i].fact]]

\* cleanResponse reading the items of any JSON object, whatever its members
cleanResponseAnyObject(response) ==
  LET cleaned == StripFence(response)
  IN IF ~JsonParses(cleaned) THEN << >>
     ELSE IF cleaned.kind \in {"data", "array", "object", "dataNotArray"}
     THEN MapItems(cleaned.items)
     ELSE << >>

cleanResponse(response) ==
  LET cleaned == StripFence(response)
  IN IF ~JsonParses(cleaned) THEN << >>
     ELSE IF cleaned.kind = "data" THEN MapItems(cleaned.items)
     ELSE IF cleaned.kind = "array" THEN MapItems(cleaned.items)
     ELSE << >>

\* metaTextExtract for the one segment addMemory passes: the result of the
\* segment, with no fact when generateResponse rejects
metaTextExtract(response) ==
  IF response.kind = "throws"
  THEN [kind |-> response.kind, facts |-> << >>]
  ELSE [kind |-> response.kind, facts |-> cleanResponse(response)]

\* the extraction results of every response
ResponseReplies == { metaTextExtract(response) : response \in LlmResponses }

\* TRUE when the call gets to llmManager.metaTextExtract
ReachesExtraction(map, buffer, policy, metaGen, messages, forceExtract) ==
  LET norm == normalizeMessages(map, messages)
      buf == BufferAfterPush(buffer, norm)
  IN /\ ~norm.threw
     /\ forceExtract \/ Len(buf) >= BufferTrigger
     /\ filterMessagesByRole(policy, buf) # <<>>
     /\ metaGen

\* addMemory with the buffer trigger one message early
addMemoryEarly(map, buffer, st, id, policy, metaGen, messages, forceExtract, reply, embs, nows) ==
  LET norm == normalizeMessages(map, messages)
      buf == BufferAfterPush(buffer, norm)
      shouldExtract == forceExtract \/ Len(buf) >= BufferTrigger - 1
      messagesToProcess == filterMessagesByRole(policy, buf)
      made == createMemoryEntries(st, id, reply.facts, messagesToProcess, embs, nows)
      base == [ map |-> norm.map, buffer |-> buf, st |-> st, nextId |-> id,
                threw |-> FALSE, llmCalls |-> 0, apiCallNums |-> 0,
                embedCalls |-> 0, prompt |-> <<>>,
                memoryEntriesCreated |-> 0, entries |-> <<>> ]
  IN IF norm.threw THEN [base EXCEPT !.threw = TRUE]
     ELSE IF ~shouldExtract THEN base
     ELSE IF messagesToProcess = <<>> THEN [base EXCEPT !.buffer = <<>>]
     ELSE IF ~metaGen THEN [base EXCEPT !.buffer = <<>>]
     ELSE IF made.threw
          THEN [base EXCEPT !.st = made.st, !.nextId = made.nextId, !.threw = TRUE,
                            !.llmCalls = 1, !.apiCallNums = 1,
                            !.prompt = concatenateMessages(messagesToProcess, policy),
                            !.embedCalls = Len(made.entries) + 1,
                            !.entries = made.entries]
          ELSE [base EXCEPT !.buffer = <<>>, !.st = made.st, !.nextId = made.nextId,
                            !.llmCalls = 1, !.apiCallNums = 1,
                            !.prompt = concatenateMessages(messagesToProcess, policy),
                            !.embedCalls = Len(made.entries),
                            !.memoryEntriesCreated = Len(made.entries),
                            !.entries = made.entries]

\* One addMemory call from the state (map, buffer, st, id) of an engine
\* configured with (policy, metaGen).  reply is the extraction reply, embs
\* and nows the embedder outcomes and clock readings per fact.  threw: the
\* call ends with an exception instead of returning its result.  llmCalls
\* and embedCalls count the calls of llmManager.metaTextExtract and of
\* embedder.embed the call makes.
\* addMemory keeping the buffer when metadataGenerate is off
addMemoryKeepingUnextracted(map, buffer, st, id, policy, metaGen, messages, forceExtract, reply, embs, nows) ==
  LET norm == normalizeMessages(map, messages)
      buf == BufferAfterPush(buffer, norm)
      shouldExtract == forceExtract \/ Len(buf) >= BufferTrigger
      messagesToProcess == filterMessagesByRole(policy, buf)
      made == createMemoryEntries(st, id, reply.facts, messagesToProcess, embs, nows)
      base == [ map |-> norm.map, buffer |-> buf, st |-> st, nextId |-> id,
                threw |-> FALSE, llmCalls |-> 0, apiCallNums |-> 0,
                embedCalls |-> 0, prompt |-> <<>>,
                memoryEntriesCreated |-> 0, entries |-> <<>> ]
  IN IF norm.threw THEN [base EXCEPT !.threw = TRUE]
     ELSE IF ~shouldExtract THEN base
     ELSE IF messagesToProcess = <<>> THEN [base EXCEPT !.buffer = <<>>]
     ELSE IF ~metaGen THEN base
     ELSE IF made.threw
          THEN [base EXCEPT !.st = made.st, !.nextId = made.nextId, !.threw = TRUE,
                            !.llmCalls = 1, !.apiCallNums = 1,
                            !.prompt = concatenateMessages(messagesToProcess, policy),
                            !.embedCalls = Len(made.entries) + 1,
                            !.entries = made.entries]
          ELSE [base EXCEPT !.buffer = <<>>, !.st = made.st, !.nextId = made.nextId,
                            !.llmCalls = 1, !.apiCallNums = 1,
                            !.prompt = concatenateMessages(messagesToProcess, policy),
                            !.embedCalls = Len(made.entries),
                            !.memoryEntriesCreated = Len(made.entries),
                            !.entries = made.entries]

addMemory(map, buffer, st, id, policy, metaGen, messages, forceExtract, reply, embs, nows) ==
  LET norm == normalizeMessages(map, messages)
      buf == BufferAfterPush(buffer, norm)
      shouldExtract == forceExtract \/ Len(buf) >= BufferTrigger
      messagesToProcess == filterMessagesByRole(policy, buf)
      made == createMemoryEntries(st, id, reply.facts, messagesToProcess, embs, nows)
      base == [ map |-> norm.map, buffer |-> buf, st |-> st, nextId |-> id,
                threw |-> FALSE, llmCalls |-> 0, apiCallNums |-> 0,
                embedCalls |-> 0, prompt |-> <<>>,
                memoryEntriesCreated |-> 0, entries |-> <<>> ]
  IN IF norm.threw THEN [base EXCEPT !.threw = TRUE]
     ELSE IF ~shouldExtract THEN base
     ELSE IF messagesToProcess = <<>> THEN [base EXCEPT !.buffer = <<>>]
     ELSE IF ~metaGen THEN [base EXCEPT !.buffer = <<>>]
     ELSE IF made.threw
          THEN [base EXCEPT !.st = made.st, !.nextId = made.nextId, !.threw = TRUE,
                            !.llmCalls = 1, !.apiCallNums = 1,
                            !.prompt = concatenateMessages(messagesToProcess, policy),
                            !.embedCalls = Len(made.entries) + 1,
                            !.entries = made.entries]
          ELSE [base EXCEPT !.buffer = <<>>, !.st = made.st, !.nextId = made.nextId,
                            !.llmCalls = 1, !.apiCallNums = 1,
                            !.prompt = concatenateMessages(messagesToProcess, policy),
                            !.embedCalls = Len(made.entries),
                            !.memoryEntriesCreated = Len(made.entries),
                            !.entries = made.entries]

(***************************************************************************)
(* LiteMemory.retrieve                                                     *)
(***************************************************************************)
\* `${payload.timeStamp} ${payload.weekday} ${payload.memory}`
FormatLine(r) == <<r.payload.timeStamp, r.payload.weekday, r.payload.memory>>

\* The string retrieve returns, as the sequence of its pieces: the three
\* fields of a line with a blank between them, and a line feed between lines.
\* No field is taken to hold a line feed.
Piece(kind, value) == [kind |-> kind, value |-> value]

LinePieces(r) ==
  << Piece("field", r.payload.timeStamp), Piece("blank", " "),
     Piece("field", r.payload.weekday), Piece("blank", " "),
     Piece("field", r.payload.memory) >>

\* formattedResults.join('\n')
RECURSIVE JoinLines(_)
JoinLines(results) ==
  IF results = << >> THEN << >>
  ELSE IF Len(results) = 1 THEN LinePieces(results[1])
  ELSE JoinLines(SubSeq(results, 1, Len(results) - 1))
         \o << Piece("feed", "\n") >> \o LinePieces(results[Len(results)])

\* retrieve with the lines in the reverse of the search order
retrieveTextReversed(st, queryEmbedding, limit, filters) ==
  LET results == search(st, queryEmbedding, limit, filters)
  IN JoinLines([i \in DOMAIN results |-> results[Len(results) + 1 - i]])

\* retrieve, from the query embedding on, with the string it returns
retrieveText(st, queryEmbedding, limit, filters) ==
  JoinLines(search(st, queryEmbedding, limit, filters))

retrieve(st, queryEmbedding, limit, filters) ==
  LET results == search(st, queryEmbedding, limit, filters)
  IN [i \in DOMAIN results |-> FormatLine(results[i])]

(***************************************************************************)
(* OpenRouterEmbedder                                                      *)
(***************************************************************************)
\* the texts given to the embedder
Texts == {"x", "y"}

\* cache.get(text) of a text not in the cache
NoVector == << >>

\* a response of client.embeddings.create to a request for n texts: a
\* rejection, or one embedding per text with or without a usage report; the
\* provider need not answer the same text with the same vector twice
UpstreamResponses(n) ==
  { [ok |-> FALSE, data |-> << >>, usage |-> 0] } \cup
  [ ok : {TRUE}, data : [1..n -> {<<1, 0>>, <<4, 1>>}], usage : {0, 1} ]

\* stats after a response: totalCalls++, totalTokens += usage.total_tokens
\* when the response reports usage
StatsAfter(stats, response) ==
  [ totalCalls |-> stats.totalCalls + 1,
    totalTokens |-> IF response.usage # 0 THEN stats.totalTokens + response.usage
                    ELSE stats.totalTokens ]

\* embed without the cache lookup
embedUncached(e, text, response) ==
  IF ~response.ok
  THEN [ embedder |-> e, threw |-> TRUE, invoked |-> TRUE, result |-> NoVector ]
  ELSE [ embedder |->
           [ e EXCEPT !.stats = StatsAfter(e.stats, response),
                      !.cache = IF e.cacheEnabled
                                THEN [e.cache EXCEPT ![text] = response.data[1]]
                                ELSE e.cache ],
         threw |-> FALSE, invoked |-> TRUE, result |-> response.data[1] ]

\* embed(text): e is the embedder, response what the endpoint would answer.
\* invoked tells whether the endpoint was called.
embed(e, text, response) ==
  IF e.cacheEnabled /\ e.cache[text] # NoVector
  THEN [ embedder |-> e, threw |-> FALSE, invoked |-> FALSE,
         result |-> e.cache[text] ]
  ELSE IF ~response.ok
  THEN [ embedder |-> e, threw |-> TRUE, invoked |-> TRUE, result |-> NoVector ]
  ELSE [ embedder |->
           [ e EXCEPT !.stats = StatsAfter(e.stats, response),
                      !.cache = IF e.cacheEnabled
                                THEN [e.cache EXCEPT ![text] = response.data[1]]
                                ELSE e.cache ],
         threw |-> FALSE, invoked |-> TRUE, result |-> response.data[1] ]

\* the indices of texts whose cache lookup gave nothing, in order
UncachedIndices(e, texts) ==
  LET Missing(i) == ~e.cacheEnabled \/ e.cache[texts[i]] = NoVector
      F[i \in 0..Len(texts)] ==
        IF i = 0 THEN << >>
        ELSE IF Missing(i) THEN Append(F[i - 1], i) ELSE F[i - 1]
  IN F[Len(texts)]

\* the cache after cache.set(uncachedTexts[i], data[i]) for i = 1..k
RECURSIVE CacheAfter(_, _, _, _, _)
CacheAfter(cache, texts, uncachedIndices, data, k) ==
  IF k = 0 THEN cache
  ELSE [ CacheAfter(cache, texts, uncachedIndices, data, k - 1)
           EXCEPT ![texts[uncachedIndices[k]]] = data[k] ]

\* embedBatch(texts): response answers the request for the uncached texts
embedBatch(e, texts, response) ==
  LET uncachedIndices == UncachedIndices(e, texts)
      Position(i) == CHOOSE k \in DOMAIN uncachedIndices : uncachedIndices[k] = i
      InUncached(i) == \E k \in DOMAIN uncachedIndices : uncachedIndices[k] = i
  IN IF Len(texts) = 0
     THEN [ embedder |-> e, threw |-> FALSE, invoked |-> FALSE, result |-> << >> ]
     ELSE IF Len(uncachedIndices) = 0
     THEN [ embedder |-> e, threw |-> FALSE, invoked |-> FALSE,
            result |-> [i \in DOMAIN texts |-> e.cache[texts[i]]] ]
     ELSE IF ~response.ok
     THEN [ embedder |-> e, threw |-> TRUE, invoked |-> TRUE, result |-> << >> ]
     ELSE [ embedder |->
              [ e EXCEPT !.stats = StatsAfter(e.stats, response),
                         !.cache = IF e.cacheEnabled
                                   THEN CacheAfter(e.cache, texts, uncachedIndices,
                                                   response.data, Len(uncachedIndices))
                                   ELSE e.cache ],
            threw |-> FALSE, invoked |-> TRUE,
            result |-> [ i \in DOMAIN texts |->
                           IF InUncached(i) THEN response.data[Position(i)]
                           ELSE e.cache[texts[i]] ] ]

\* clearCache()
clearCache(e) == [e EXCEPT !.cache = [t \in Texts |-> NoVector]]

(***************************************************************************)
(* Inputs of the operations                                                *)
(***************************************************************************)
Message(role, marker) ==
  [ role |-> role, content |-> "hi", timeStamp |-> marker,
    speakerId |-> IF role = "user" THEN "u1" ELSE "a1",
    speakerName |-> IF role = "user" THEN "Alice" ELSE "Bot" ]

InputMessages ==
  { Message(role, marker) : role \in {"user", "assistant"}, marker \in ValidMarkers }
    \cup { Message("user", ""), Message("user", MarkerGarbage) }

\* a message the normalizer rejects
InvalidMessage(msg) ==
  ~TruthyStr(msg.timeStamp) \/ ~parseSessionTimestamp(msg.timeStamp).ok

Batches == SeqsUpTo(InputMessages, MaxBatch)

\* Batches whose valid messages carry the marker MarkerEpoch.  The
\* normalizer reads no message after the first one it rejects, so a
\* rejected message is the last of its batch.
EpochBatches ==
  { b \in Batches :
      /\ \A i \in DOMAIN b : b[i].timeStamp # MarkerSession
      /\ \A i \in DOMAIN b : InvalidMessage(b[i]) => i = Len(b) }

\* one user message with a valid marker, as a batch
SingleUserBatches == { <<Message("user", MarkerEpoch)>> }

\* the call fails, or one fact that cites the first message
SingleFactReplies ==
  { [kind |-> "error", facts |-> <<>>],
    [kind |-> "facts", facts |-> << [sourceId |-> 0, fact |-> "f1"] >>] }

\* (topK, keepTopN) of phase 1
ConstructParams == { <<5, 5>>, <<1, 1>> }

\* scoreThreshold of phase 2
Thresholds == { Ratio(9, 10), Ratio(1, 1) }

(***************************************************************************)
(* State                                                                   *)
(***************************************************************************)
VARIABLES
  store,             \* rows of table memories, in rowid order
  nextId,            \* the next id crypto.randomUUID() returns
  lastTimestampMap,  \* MessageNormalizer.lastTimestampMap
  messageBuffer,     \* LiteMemory.messageBuffer
  messagesUse,       \* config.messagesUse
  metadataGenerate,  \* config.metadataGenerate
  last,              \* history: the last operation, its inputs and results
  ignoreStreak,      \* history: phase-2 runs in a row that were all 'ignore'
  insertedOrig,      \* history: id -> originalMemory given to insert
  deletedIds,        \* history: ids removed by a phase-2 delete
  input,             \* the arguments of the direct search call to make
  embedder,          \* OpenRouterEmbedder: cacheEnabled, cache, stats
  upstream,          \* the embedding endpoint: calls received, calls answered
  embedded,          \* history: what embed returned, texts embedded since a clear
  inFlight,          \* the addMemory calls suspended at an await, oldest first
  server             \* the MCP server: liteMemInstance and its tool handlers

vars == << store, nextId, lastTimestampMap, messageBuffer, messagesUse,
           metadataGenerate, last, ignoreStreak, insertedOrig, deletedIds, input,
           embedder, upstream, embedded, inFlight, server >>

NoInput == [queryEmbedding |-> <<>>, limit |-> 0, filters |-> NoFilters]

NoStreak == [runs |-> 0, base |-> <<>>]

\* new OpenRouterEmbedder(config, enableCache) and an endpoint not yet called.
\* The engine constructs its embedder with the cache on; the engine
\* specifications take the embedder by the outcomes of its calls
\* (EmbedOutcomes), its cache and counters are followed in SpecEmbed.
\* no addMemory call is under way; the MCP server has made no instance and
\* runs no tool handler
InitServer ==
  /\ inFlight = << >>
  /\ server = [ liteMemInstance |-> "null", initialized |-> FALSE,
                handlers |-> << >>, ranUninitialized |-> FALSE ]

InitEmbedder(enableCache) ==
  /\ embedder = [ cacheEnabled |-> enableCache,
                  cache |-> [t \in Texts |-> NoVector],
                  stats |-> [totalCalls |-> 0, totalTokens |-> 0] ]
  /\ upstream = [invocations |-> 0, answered |-> 0]
  /\ embedded = [vector |-> [t \in Texts |-> NoVector], sinceClear |-> {}]

\* the engine's own fields after construction, whatever its configuration
InitLiteMemory ==
  /\ store = <<>>
  /\ nextId = 1
  /\ lastTimestampMap = [m \in ValidMarkers |-> NoDate]
  /\ messageBuffer = <<>>
  /\ last = [op |-> "init"]
  /\ ignoreStreak = NoStreak
  /\ insertedOrig = <<>>
  /\ deletedIds = {}
  /\ input = NoInput

\* the engine after construction, whatever its configuration
InitEngine ==
  /\ InitLiteMemory
  /\ InitEmbedder(TRUE)
  /\ InitServer

\* an engine configured as in the consolidation scenarios
Init ==
  /\ InitEngine
  /\ messagesUse = "hybrid"
  /\ metadataGenerate = TRUE

\* an engine of any configuration
InitAdd ==
  /\ InitEngine
  /\ messagesUse \in Policies
  /\ metadataGenerate \in BOOLEAN

\* The rows after insert(createMemoryEntry({...}), embedding) calls: row i
\* has id i and fact i as memory and originalMemory; its instant, embedding,
\* speaker and category are drawn from the given sets.
FactOf(i) == IF i = 1 THEN "f1" ELSE IF i = 2 THEN "f2" ELSE IF i = 3 THEN "f3" ELSE "f4"

SeedRow(i, ms, embedding, tag) ==
  LET entry == createMemoryEntry(i,
                 [ memory |-> FactOf(i), originalMemory |-> FactOf(i),
                   timeStamp |-> ToISOString(ms), floatTimeStamp |-> ms,
                   weekday |-> "Thu", speakerId |-> tag[1], speakerName |-> tag[1],
                   category |-> tag[2] ])
  IN insert(<<>>, entry, embedding)[1]

SeedStores(times, vectors, tags) ==
  UNION { { [i \in 1..n |-> SeedRow(i, c[i][1], c[i][2], c[i][3])] :
              c \in [1..n -> times \X vectors \X tags] } : n \in 0..MaxSeed }

SeedTimes == { 0, OffsetMs, 2 * OffsetMs }

SearchSeedTimes == { 0, 1000 }

\* a store of up to MaxSeed rows and the engine that holds it
InitSeeded(stores) ==
  /\ store \in stores
  /\ nextId = Len(store) + 1
  /\ lastTimestampMap = [m \in ValidMarkers |-> NoDate]
  /\ messageBuffer = <<>>
  /\ messagesUse = "hybrid"
  /\ metadataGenerate = TRUE
  /\ last = [op |-> "init"]
  /\ ignoreStreak = NoStreak
  /\ insertedOrig = [i \in DOMAIN store |-> store[i].originalMemory]
  /\ deletedIds = {}
  /\ InitEmbedder(TRUE)
  /\ InitServer

InitConsolidate ==
  /\ InitSeeded(SeedStores(SeedTimes, { <<4, 1>>, <<1, 0>> }, { <<"u1", "">> }))
  /\ input = NoInput

\* filters of direct VectorStore.search calls
SearchFilterSet ==
  { [ hasGte |-> g[1], gte |-> g[2], hasLte |-> l[1], lte |-> l[2],
      hasSpeaker |-> t[1], speakerId |-> t[2], hasCategory |-> t[3], category |-> t[4] ] :
      g \in { <<FALSE, 0>>, <<TRUE, 0>>, <<TRUE, 500>> },
      l \in { <<FALSE, 0>>, <<TRUE, 0>>, <<TRUE, 500>> },
      t \in { <<FALSE, "", FALSE, "">>, <<TRUE, "u1", FALSE, "">>, <<FALSE, "", TRUE, "c1">> } }

SearchLimits == { 0, 1, 10 }

InitSearch ==
  /\ InitSeeded(SeedStores(SearchSeedTimes, { <<4, 1>>, <<0, 1>> },
                           { <<"u1", "">>, <<"a1", "c1">> }))
  /\ input \in [ queryEmbedding : QueryVectors, limit : SearchLimits,
                  filters : SearchFilterSet ]


(***************************************************************************)
(* Actions: one per public operation                                       *)
(***************************************************************************)
\* addMemory(messages, {forceExtract}) with the inputs drawn from the given
\* sets: batches, forceExtract flags, extraction replies and embed outcomes.
\* No embed call follows a rejected one, so a rejection is the last outcome.
\* The calls that would take an instant past maxInstant or the store past
\* MaxRecords rows are left out.  With keepInput the arguments of the call
\* and the number of its embed calls are kept in input.
AddMemoryStep(maxInstant, batches, flags, replies, outcomes, keepInput) ==
  \E messages \in batches, forceExtract \in flags :
    /\ \A m \in ValidMarkers :
         normalizeMessages(lastTimestampMap, messages).map[m] <= maxInstant
    /\ LET reached == ReachesExtraction(lastTimestampMap, messageBuffer, messagesUse,
                                        metadataGenerate, messages, forceExtract)
       IN \E reply \in (IF reached THEN replies ELSE { [kind |-> "error", facts |-> <<>>] }) :
          \E embs \in { e \in [1..Len(reply.facts) -> outcomes] :
                           /\ \A i \in DOMAIN e : e[i] = EmbedFail => i = Len(e)
                           /\ Len(store) + Cardinality({ i \in DOMAIN e : e[i] # EmbedFail })
                                <= MaxRecords } :
          \E nows \in [1..Len(reply.facts) -> NowPairs] :
            \E r \in { addMemory(lastTimestampMap, messageBuffer, store, nextId,
                                  messagesUse, metadataGenerate,
                                  messages, forceExtract, reply, embs, nows) } :
               /\ Len(r.st) <= MaxRecords
               /\ r.nextId <= MaxRecords + 2
               /\ lastTimestampMap' = r.map
               /\ messageBuffer' = r.buffer
               /\ store' = r.st
               /\ nextId' = r.nextId
               /\ insertedOrig' =
                    [id \in (DOMAIN insertedOrig) \cup { r.entries[i].id : i \in DOMAIN r.entries } |->
                       IF id \in DOMAIN insertedOrig THEN insertedOrig[id]
                       ELSE r.entries[CHOOSE i \in DOMAIN r.entries : r.entries[i].id = id].originalMemory]
               /\ last' = [ op |-> "addMemory",
                            invalid |-> \E i \in DOMAIN messages : InvalidMessage(messages[i]),
                            normalized |-> Len(normalizeMessages(lastTimestampMap, messages).out),
                            reached |-> reached,
                            threw |-> r.threw,
                            llmCalls |-> r.llmCalls,
                            apiCallNums |-> r.apiCallNums,
                            memoryEntriesCreated |-> r.memoryEntriesCreated ]
               /\ ignoreStreak' = NoStreak
               /\ input' = IF keepInput
                           THEN [messages |-> messages, forceExtract |-> forceExtract,
                                 embedCalls |-> r.embedCalls, replyKind |-> reply.kind,
                                 facts |-> reply.facts, prompt |-> r.prompt]
                           ELSE input
               /\ UNCHANGED <<messagesUse, metadataGenerate, deletedIds, embedder, upstream, embedded,
                  inFlight, server >>

AddMemoryOf(batches, flags, replies, outcomes) ==
  AddMemoryStep(MaxBumps * OffsetMs, batches, flags, replies, outcomes, FALSE)

\* any call
AddMemory == AddMemoryOf(EpochBatches, BOOLEAN, ExtractReplies, { <<1, 0>>, EmbedFail })

\* a forced call with one user message, a working embedder and facts that
\* cite the message
AddMemoryForced ==
  AddMemoryOf(SingleUserBatches, {TRUE}, SingleFactReplies, { <<4, 1>>, <<1, 0>> })

\* retrieve(query, limit, filters); q is the outcome of embedder.embed(query)
RetrieveOf(outcomes, limits, filterSet) ==
  \E q \in outcomes, limit \in limits, filters \in filterSet :
    /\ last' = [ op |-> "retrieve",
                 threw |-> (q = EmbedFail),
                 queryEmbedding |-> q,
                 limit |-> limit,
                 filters |-> filters,
                 out |-> IF q = EmbedFail THEN <<>>
                         ELSE retrieve(store, q, limit, filters) ]
    /\ ignoreStreak' = NoStreak
    /\ UNCHANGED << store, nextId, lastTimestampMap, messageBuffer, messagesUse,
                    metadataGenerate, insertedOrig, deletedIds, embedder, upstream, embedded, input,
                  inFlight, server >>

Retrieve == RetrieveOf({ <<4, 1>> }, { 1 }, { NoFilters })

ConstructUpdateQueueWith(paramSet) ==
  \E params \in paramSet :
    /\ store' = constructUpdateQueueAllEntries(store, params[1], params[2])
    /\ last' = [ op |-> "construct", topK |-> params[1], keepTopN |-> params[2] ]
    /\ ignoreStreak' = NoStreak
    /\ UNCHANGED << nextId, lastTimestampMap, messageBuffer, messagesUse,
                    metadataGenerate, insertedOrig, deletedIds, embedder, upstream, embedded, input,
                  inFlight, server >>

\* the records of the store the run calls the LLM for: llm is drawn for
\* them only, the reply for any other record is never asked for
Targets(st, scoreThreshold) ==
  { st[i].id : i \in { j \in DOMAIN st :
       candidateSources(getAll(st), st[j], scoreThreshold) # <<>> } }

\* the LLM calls of a run: the target and the sources shown for it
CallSet(log) ==
  { [ target |-> log[i].target,
      sources |-> { log[i].sources[j] : j \in DOMAIN log[i].sources } ] : i \in DOMAIN log }

\* offlineUpdateAllEntries(scoreThreshold); p is the order in which getAll
\* returns the rows, llm the reply of the chat endpoint per target
OfflineUpdateWith(orders, replies) ==
  \E scoreThreshold \in Thresholds, p \in orders :
  \E llm \in [Targets(store, scoreThreshold) -> replies] :
    \E r \in { offlineUpdateAllEntries(store, ScanOrder(store, p), llm, scoreThreshold) } :
       /\ store' = r.st
       /\ deletedIds' = deletedIds \cup r.deleted
       /\ last' = [ op |-> "offline",
                    scoreThreshold |-> scoreThreshold,
                    llm |-> llm,
                    inRowOrder |-> (ScanOrder(store, p) = getAll(store)),
                    calls |-> CallSet(r.log),
                    callCount |-> Len(r.log) ]
       /\ ignoreStreak' =
            IF \E id \in DOMAIN llm : llm[id] # IgnoreReply THEN NoStreak
            ELSE IF ignoreStreak.runs = 0 THEN [runs |-> 1, base |-> store]
            ELSE [runs |-> 2, base |-> ignoreStreak.base]
       /\ UNCHANGED << nextId, lastTimestampMap, messageBuffer, messagesUse,
                       metadataGenerate, insertedOrig, input, embedder, upstream, embedded,
                  inFlight, server >>

OfflineUpdateIn(orders) == OfflineUpdateWith(orders, UpdateReplies)

\* the rows come in rowid order, as SQLite returns them for a full scan
OfflineUpdate == OfflineUpdateIn({ [i \in DOMAIN store |-> i] })

\* the rows come in any order, as SQL allows
OfflineUpdateAnyOrder == OfflineUpdateIn(Permutations(DOMAIN store))

\* a direct VectorStore.update call addressed to an id that was drawn
\* earlier and is not stored
EditPartial == [memory |-> "edited", originalMemory |-> "edited"]

UpdateMissingId ==
  \E id \in (1..(nextId - 1)) \ StoreIds(store) :
    /\ store' = update(store, id, EditPartial, NoEmbedding)
    /\ last' = [ op |-> "update", id |-> id ]
    /\ ignoreStreak' = NoStreak
    /\ UNCHANGED << nextId, lastTimestampMap, messageBuffer, messagesUse,
                    metadataGenerate, insertedOrig, deletedIds, embedder, upstream, embedded, input,
                  inFlight, server >>

ConstructUpdateQueue == ConstructUpdateQueueWith(ConstructParams)

Next ==
  \/ AddMemoryForced
  \/ Retrieve
  \/ ConstructUpdateQueue
  \/ OfflineUpdate
  \/ UpdateMissingId

Spec == Init /\ [][Next]_vars

NextAdd == AddMemory

\* the consolidation phases on a seeded store
NextConsolidate ==
  \/ ConstructUpdateQueue
  \/ OfflineUpdate

SpecConsolidate == InitConsolidate /\ [][NextConsolidate]_vars

\* one run of phase 2 with its scan order left open, on a seeded store or
\* on what phase 1 makes of it
NextOrder ==
  \/ (last.op = "init" /\ ConstructUpdateQueue)
  \/ (last.op # "offline" /\ OfflineUpdateAnyOrder)

SpecOrder == InitConsolidate /\ [][NextOrder]_vars

\* a direct VectorStore.search(queryEmbedding, limit, filters) call
Search ==
  /\ last.op = "init"
  /\ last' = [ op |-> "search",
               out |-> search(store, input.queryEmbedding, input.limit, input.filters) ]
  /\ UNCHANGED << store, nextId, lastTimestampMap, messageBuffer, messagesUse,
                  metadataGenerate, ignoreStreak, insertedOrig, deletedIds, embedder, upstream, embedded, input,
                  inFlight, server >>

NextSearch == Search

SpecSearch == InitSearch /\ [][NextSearch]_vars

SpecAdd == InitAdd /\ [][NextAdd]_vars


(***************************************************************************)
(* Properties of the consolidation phases                                  *)
(***************************************************************************)
\* a store of two records with different instants and embeddings of
\* cosine similarity above 0.95, and its older and newer record
TwoSimilar(st) ==
  /\ Len(st) = 2
  /\ st[1].floatTimeStamp # st[2].floatTimeStamp
  /\ ScoreGT(cosineSimilarity(st[1].embedding, st[2].embedding), Ratio(95, 100))

OlderOf(st) == IF st[1].floatTimeStamp < st[2].floatTimeStamp THEN st[1] ELSE st[2]

NewerOf(st) == IF st[1].floatTimeStamp < st[2].floatTimeStamp THEN st[2] ELSE st[1]

\* a step offlineUpdateAllEntries(0.9) taken right after
\* constructUpdateQueueAllEntries(5, 5) on such a store, with an LLM that
\* gives the same reply for every target
ConsolidationStep(reply) ==
  /\ last.op = "construct" /\ last.topK = 5 /\ last.keepTopN = 5
  /\ TwoSimilar(store)
  /\ last'.op = "offline"
  /\ last'.scoreThreshold = Ratio(9, 10)
  /\ \A id \in DOMAIN last'.llm : last'.llm[id] = reply

\* the state after a run offlineUpdateAllEntries(0.9) that called the LLM
\* and got the same reply for every target
AfterConsolidation(reply) ==
  /\ last.op = "offline"
  /\ last.scoreThreshold = Ratio(9, 10)
  /\ DOMAIN last.llm # {}
  /\ \A id \in DOMAIN last.llm : last.llm[id] = reply

TemporalDirectionality ==
  last.op = "construct" =>
    \A i \in DOMAIN store : \A k \in DOMAIN store[i].updateQueue :
      \A j \in DOMAIN store :
        store[j].id = store[i].updateQueue[k].id =>
          store[j].floatTimeStamp <= store[i].floatTimeStamp

\* C4: no record's updateQueue holds an entry with the record's own id,
\* whatever topK, keepTopN and the store contents.
SelfExclusion ==
  \A i \in DOMAIN store : \A k \in DOMAIN store[i].updateQueue :
    store[i].updateQueue[k].id # store[i].id

\* phase 1 has run on two records or more and filled a queue
SelfExclusionWitness ==
  /\ last.op = "construct"
  /\ count(store) >= 2
  /\ \E i \in DOMAIN store : store[i].updateQueue # <<>>

\* C7: when two successive offlineUpdateAllEntries runs got ignore for
\* every target, the store is what it was before the first of them, every
\* field of every record, embedding and updateQueue included.
IgnoreRunsKeepStore ==
  ignoreStreak.runs = 2 => (store = ignoreStreak.base /\ count(store) = Len(ignoreStreak.base))

\* the second of two ignore runs has called the LLM
IgnoreRunsWitness ==
  /\ ignoreStreak.runs = 2
  /\ last.op = "offline"
  /\ DOMAIN last.llm # {}


\* C6: a run of offlineUpdateAllEntries that visits the snapshot in any
\* order ends with the store of the run that visits it in rowid order with
\* the same LLM fixture, and makes the same LLM calls (the same targets,
\* each with the same sources).
VisitOrderIrrelevant ==
  [][last'.op = "offline" =>
       \E r \in { offlineUpdateAllEntries(store, getAll(store), last'.llm,
                                          last'.scoreThreshold) } :
          /\ store' = r.st
          /\ last'.calls = CallSet(r.log)]_vars

\* a run in another order than the rowid order made two LLM calls or more
\* and deleted one of its targets
VisitOrderWitness ==
  /\ last.op = "offline"
  /\ ~last.inRowOrder
  /\ Cardinality(last.calls) >= 2
  /\ \E id \in DOMAIN last.llm : last.llm[id] = DeleteReply /\ id \notin StoreIds(store)

(***************************************************************************)
(* Properties of the engine                                                *)
(***************************************************************************)
\* C8: every record of the store has the originalMemory it was inserted
\* with, after any sequence of addMemory, retrieve, phase 1 and phase 2.
OriginalMemoryKept ==
  \A i \in DOMAIN store :
    /\ store[i].id \in DOMAIN insertedOrig
    /\ store[i].originalMemory = insertedOrig[store[i].id]

\* phase 2 has rewritten the memory of a record that addMemory inserted
OriginalMemoryWitness ==
  /\ last.op = "offline"
  /\ \E i \in DOMAIN store :
       /\ store[i].memory = "merged"
       /\ store[i].originalMemory = "f1"
       /\ last.llm[store[i].id] = MergeReply

\* C9: an id that a phase-2 delete removed is never stored again, and an
\* update addressed to an id that is not stored creates no record.
NoResurrection ==
  /\ deletedIds \cap StoreIds(store) = {}
  /\ last.op = "update" => last.id \notin StoreIds(store)

\* update was called with the id of a record that phase 2 deleted
NoResurrectionWitness ==
  /\ last.op = "update"
  /\ last.id \in deletedIds

(***************************************************************************)
(* Properties of VectorStore.search                                        *)
(***************************************************************************)
\* the filter predicates as stated: inclusive bounds on floatTimeStamp,
\* equality on speakerId and category, each applied when its key is given
MeetsFilters(entry, f) ==
  /\ f.hasGte => entry.floatTimeStamp >= f.gte
  /\ f.hasLte => entry.floatTimeStamp <= f.lte
  /\ f.hasSpeaker => entry.speakerId = f.speakerId
  /\ f.hasCategory => entry.category = f.category

\* C5 as the specification states it: search returns at most limit
\* results, each a record of the store that satisfies every given filter
\* (bounds of 0 included) with its cosine similarity to the query as score,
\* in non-increasing order of score.
SearchCorrect ==
  last.op = "search" =>
    /\ Len(last.out) <= input.limit
    /\ \A i \in DOMAIN last.out :
         /\ last.out[i].id \in StoreIds(store)
         /\ MeetsFilters(last.out[i].payload, input.filters)
         /\ last.out[i].score =
              cosineSimilarity(input.queryEmbedding, last.out[i].payload.embedding)
    /\ \A i \in 1..(Len(last.out) - 1) :
         ScoreGE(last.out[i].score, last.out[i + 1].score)

(***************************************************************************)
(* Properties of addMemory                                                 *)
(***************************************************************************)
\* C10: an addMemory call whose batch has a message with a missing
\* timeStamp or an unparseable marker throws, adds no message of the batch
\* to the buffer, makes no LLM call and leaves the store unchanged.
BatchRejected ==
  [][(last'.op = "addMemory" /\ last'.invalid) =>
       /\ last'.threw
       /\ messageBuffer' = messageBuffer
       /\ last'.llmCalls = 0
       /\ store' = store]_vars

\* a rejected batch whose first message was valid, sent to an engine that
\* holds buffered messages
BatchRejectedWitness ==
  /\ last.op = "addMemory"
  /\ last.invalid
  /\ last.threw
  /\ last.normalized >= 1
  /\ messageBuffer # <<>>


(***************************************************************************)
(* The engine with a buffer close to the extraction trigger                *)
(***************************************************************************)
\* the sizes of the buffer the engine starts with
PrefillSizes == { BufferTrigger - 2, BufferTrigger - 1 }

\* The engine after one addMemory call without forceExtract whose batch has
\* k messages of one role, all with the marker MarkerEpoch.
InitTrigger ==
  \E k \in PrefillSizes, role \in {"user", "assistant"} :
    \E policy \in Policies, metaGen \in BOOLEAN :
      \E r \in { addMemory([m \in ValidMarkers |-> NoDate], <<>>, <<>>, 1, policy, metaGen,
                           [i \in 1..k |-> Message(role, MarkerEpoch)], FALSE,
                           [kind |-> "error", facts |-> <<>>], <<>>, <<>>) } :
        /\ store = r.st
        /\ nextId = r.nextId
        /\ lastTimestampMap = r.map
        /\ messageBuffer = r.buffer
        /\ messagesUse = policy
        /\ metadataGenerate = metaGen
        /\ last = [op |-> "init"]
        /\ ignoreStreak = NoStreak
        /\ insertedOrig = <<>>
        /\ deletedIds = {}
        /\ InitEmbedder(TRUE)
        /\ InitServer
        /\ input = NoInput

\* any call that keeps the number of messages with the marker within the
\* trigger depth plus one
AddMemoryNearTrigger ==
  AddMemoryStep(BufferTrigger * OffsetMs, EpochBatches, BOOLEAN,
                SingleFactReplies, { <<1, 0>>, EmbedFail }, TRUE)

NextTrigger == AddMemoryNearTrigger

SpecTrigger == InitTrigger /\ [][NextTrigger]_vars


(***************************************************************************)
(* Properties of the extraction trigger                                    *)
(***************************************************************************)
\* a step that is an addMemory call with a batch the normalizer accepts
AcceptedCall == last'.op = "addMemory" /\ ~last'.invalid

\* the call of the step was forced, or the buffer holds 10 messages or more
\* once the messages of the call are appended
Triggered == input'.forceExtract \/ Len(messageBuffer) + Len(input'.messages) >= 10

\* the role filter keeps a message of the buffer or of the batch
SomeRoleKept ==
  \E role \in allowedRoles(messagesUse) :
    \/ \E i \in DOMAIN messageBuffer : messageBuffer[i].role = role
    \/ \E i \in DOMAIN input'.messages : input'.messages[i].role = role

\* the step calls neither the LLM nor the embedder, leaves the store alone,
\* appends the messages of the call to the buffer and returns zero counts
QuietCall ==
  /\ last'.llmCalls = 0
  /\ input'.embedCalls = 0
  /\ ~last'.threw
  /\ store' = store
  /\ Len(messageBuffer') = Len(messageBuffer) + Len(input'.messages)
  /\ SubSeq(messageBuffer', 1, Len(messageBuffer)) = messageBuffer
  /\ \A i \in DOMAIN input'.messages :
        /\ messageBuffer'[Len(messageBuffer) + i].role = input'.messages[i].role
        /\ messageBuffer'[Len(messageBuffer) + i].content = input'.messages[i].content
  /\ last'.memoryEntriesCreated = 0
  /\ last'.apiCallNums = 0

\* C11 as the specification states it: an addMemory call runs extraction if
\* and only if forceExtract is set or the buffer holds at least 10 messages
\* after the append; when neither holds the call is quiet.
ExtractionIffTriggered ==
  [][AcceptedCall =>
       /\ (last'.llmCalls = 1) <=> Triggered
       /\ ~Triggered => QuietCall]_vars

\* C11: an addMemory call with an accepted batch calls the extraction LLM,
\* once, if and only if forceExtract is set or the buffer holds at least 10
\* messages after the append, and the role filter keeps a message of that
\* buffer, and metadataGenerate is on.  A triggered call that does not call
\* the LLM empties the buffer and leaves the store alone.  A call that is
\* not triggered is quiet.
ExtractionIffTriggeredAndKept ==
  [][AcceptedCall =>
       /\ last'.llmCalls \in {0, 1}
       /\ (last'.llmCalls = 1) <=> (Triggered /\ SomeRoleKept /\ metadataGenerate)
       /\ (Triggered /\ last'.llmCalls = 0) =>
            (messageBuffer' = <<>> /\ store' = store /\ input'.embedCalls = 0)
       /\ ~Triggered => QuietCall]_vars

\* a call without forceExtract reached the extraction LLM through the depth
\* of the buffer
ExtractionByDepthWitness ==
  /\ last.op = "addMemory"
  /\ ~last.invalid
  /\ ~input.forceExtract
  /\ input.messages # <<>>
  /\ last.llmCalls = 1


(***************************************************************************)
(* The message normalizer on its own                                       *)
(***************************************************************************)
\* batches of messages with either marker; a rejected message ends its batch
MarkerBatches ==
  { b \in Batches : \A i \in DOMAIN b : InvalidMessage(b[i]) => i = Len(b) }

\* One call normalizer.normalizeMessages(messages).  out holds the messages
\* the loop has normalized, also when the call throws at a later message.
\* The calls that would give a marker more than MaxBumps + 1 offsets are
\* left out.
Normalize ==
  \E messages \in MarkerBatches :
    \E norm \in { normalizeMessages(lastTimestampMap, messages) } :
      /\ \A m \in ValidMarkers :
           norm.map[m] <= parseSessionTimestamp(m).date + (MaxBumps + 1) * OffsetMs
      /\ lastTimestampMap' = norm.map
      /\ last' = [ op |-> "normalize", threw |-> norm.threw, out |-> norm.out ]
      /\ input' = [ messages |-> messages ]
      /\ UNCHANGED << store, nextId, messageBuffer, messagesUse, metadataGenerate,
                      ignoreStreak, insertedOrig, deletedIds, embedder, upstream, embedded,
                  inFlight, server >>

NextNormalize == Normalize

SpecNormalize == Init /\ [][NextNormalize]_vars

\* the instant the i-th normalized message of a call has to get: the parsed
\* instant of its marker when it is the first message with that marker the
\* normalizer sees, else the instant of the previous one plus 500 ms
ExpectedInstant(out, i, map) ==
  LET marker == out[i].sessionTime
      earlier == { j \in 1..(i - 1) : out[j].sessionTime = marker }
      latest == CHOOSE j \in earlier : \A k \in earlier : k <= j
  IN IF earlier # {} THEN DateParse(out[latest].timeStamp) + 500
     ELSE IF map[marker] = NoDate THEN parseSessionTimestamp(marker).date
     ELSE map[marker] + 500

\* C12: within one normalizer, the first message with a marker gets the
\* marker's parsed instant and each later one the instant of the previous one
\* plus 500 ms, whatever calls and other markers lie between them; the
\* normalizer keeps, per marker, the instant it gave last.
OffsetPerMarker ==
  [][last'.op = "normalize" =>
       /\ \A i \in DOMAIN last'.out :
            DateParse(last'.out[i].timeStamp) =
              ExpectedInstant(last'.out, i, lastTimestampMap)
       /\ \A i \in DOMAIN last'.out :
            /\ last'.out[i].sessionTime = input'.messages[i].timeStamp
            /\ DateParse(last'.out[i].timeStamp) > lastTimestampMap[last'.out[i].sessionTime]
       /\ \A m \in ValidMarkers :
            LET mine == { j \in DOMAIN last'.out : last'.out[j].sessionTime = m }
            IN lastTimestampMap'[m] =
                 IF mine = {} THEN lastTimestampMap[m]
                 ELSE DateParse(last'.out[CHOOSE j \in mine : \A k \in mine : k <= j].timeStamp)]_vars

\* a call has given a message an instant past the parsed instant of its
\* marker after the normalizer has seen the other marker
OffsetPerMarkerWitness ==
  /\ last.op = "normalize"
  /\ ~last.threw
  /\ \A m \in ValidMarkers : lastTimestampMap[m] # NoDate
  /\ \E i \in DOMAIN last.out :
       DateParse(last.out[i].timeStamp) >=
         parseSessionTimestamp(last.out[i].sessionTime).date + 2 * 500


(***************************************************************************)
(* The embedder on its own                                                 *)
(***************************************************************************)
\* an embedder constructed with or without its cache
InitEmbed ==
  /\ InitLiteMemory
  /\ messagesUse = "hybrid"
  /\ metadataGenerate = TRUE
  /\ \E enableCache \in BOOLEAN : InitEmbedder(enableCache)
  /\ InitServer

TextBatches == SeqsUpTo(Texts, MaxBatch)

\* the endpoint's counters after a call of the embedder
UpstreamAfter(r, response) ==
  [ invocations |-> upstream.invocations + (IF r.invoked THEN 1 ELSE 0),
    answered |-> upstream.answered + (IF r.invoked /\ response.ok THEN 1 ELSE 0) ]

\* one call embedder.embed(text); at most MaxCalls calls reach the endpoint
Embed ==
  \E text \in Texts, response \in UpstreamResponses(1) :
    \E r \in { embed(embedder, text, response) } :
      /\ r.invoked => upstream.invocations < MaxCalls
      /\ ~r.invoked => response = [ok |-> FALSE, data |-> << >>, usage |-> 0]
      /\ embedder' = r.embedder
      /\ upstream' = UpstreamAfter(r, response)
      /\ embedded' = IF r.threw THEN embedded
                     ELSE [ vector |-> [embedded.vector EXCEPT ![text] = r.result],
                            sinceClear |-> embedded.sinceClear \cup {text} ]
      /\ last' = [ op |-> "embed", texts |-> <<text>>, threw |-> r.threw,
                   invoked |-> r.invoked, result |-> <<r.result>> ]
      /\ UNCHANGED << store, nextId, lastTimestampMap, messageBuffer, messagesUse,
                      metadataGenerate, ignoreStreak, insertedOrig, deletedIds, input,
                  inFlight, server >>

\* one call embedder.embedBatch(texts)
EmbedBatch ==
  \E texts \in TextBatches :
    \E response \in UpstreamResponses(Len(UncachedIndices(embedder, texts))) :
      \E r \in { embedBatch(embedder, texts, response) } :
        /\ r.invoked => upstream.invocations < MaxCalls
        /\ ~r.invoked => response = [ok |-> FALSE, data |-> << >>, usage |-> 0]
        /\ embedder' = r.embedder
        /\ upstream' = UpstreamAfter(r, response)
        /\ embedded' = IF r.threw THEN embedded
                       ELSE [ embedded EXCEPT !.sinceClear =
                                @ \cup { texts[i] : i \in DOMAIN texts } ]
        /\ last' = [ op |-> "embedBatch", texts |-> texts, threw |-> r.threw,
                     invoked |-> r.invoked, result |-> r.result ]
        /\ UNCHANGED << store, nextId, lastTimestampMap, messageBuffer, messagesUse,
                        metadataGenerate, ignoreStreak, insertedOrig, deletedIds, input,
                  inFlight, server >>

\* one call embedder.clearCache()
ClearCache ==
  /\ embedder' = clearCache(embedder)
  /\ embedded' = [embedded EXCEPT !.sinceClear = {}]
  /\ last' = [op |-> "clearCache"]
  /\ UNCHANGED << store, nextId, lastTimestampMap, messageBuffer, messagesUse,
                  metadataGenerate, ignoreStreak, insertedOrig, deletedIds, input,
                  upstream,
                  inFlight, server >>

NextEmbed == Embed \/ EmbedBatch \/ ClearCache

SpecEmbed == InitEmbed /\ [][NextEmbed]_vars


(***************************************************************************)
(* Properties of the embedder                                              *)
(***************************************************************************)
EmbedderCall == last'.op \in {"embed", "embedBatch"}

\* every text of the call was embedded since the cache was last cleared
AllEmbeddedBefore ==
  \A i \in DOMAIN last'.texts : last'.texts[i] \in embedded.sinceClear

\* the call returned normally, gave every text embedded before its cached
\* vector, and did not reach the endpoint
ServedFromCache ==
  /\ ~last'.threw
  /\ ~last'.invoked
  /\ upstream' = upstream
  /\ \A i \in DOMAIN last'.texts :
       /\ embedder.cache[last'.texts[i]] # NoVector
       /\ last'.result[i] = embedder.cache[last'.texts[i]]

\* C13 as stated: a call for texts embedded since the last clear is served
\* from the cache without reaching the endpoint, and totalCalls is the number
\* of calls the endpoint received.
CacheHitAndCallCount ==
  [][EmbedderCall =>
       /\ AllEmbeddedBefore => ServedFromCache
       /\ embedder'.stats.totalCalls = upstream'.invocations]_vars

\* C13: with the cache enabled, a call for texts embedded since the last
\* clear is served from the cache without reaching the endpoint and changes
\* nothing in the embedder; in a batch, each text embedded before gets its
\* cached vector; a call reaches the endpoint at most once; totalCalls is the
\* number of calls the endpoint answered.
CacheHitWhenEnabled ==
  [][EmbedderCall =>
       /\ embedder.cacheEnabled =>
            /\ AllEmbeddedBefore => (ServedFromCache /\ embedder' = embedder)
            /\ ~last'.threw =>
                 \A i \in DOMAIN last'.texts :
                   last'.texts[i] \in embedded.sinceClear =>
                     /\ embedder.cache[last'.texts[i]] # NoVector
                     /\ last'.result[i] = embedder.cache[last'.texts[i]]
       /\ upstream'.invocations \in { upstream.invocations, upstream.invocations + 1 }
       /\ upstream'.invocations = upstream.invocations <=> ~last'.invoked
       /\ embedder'.stats.totalCalls = upstream'.answered]_vars

\* an embed served from the cache after the endpoint has answered one call
\* and rejected another
CacheHitWitness ==
  /\ last.op = "embed"
  /\ ~last.invoked
  /\ ~last.threw
  /\ embedder.cacheEnabled
  /\ upstream.answered >= 1
  /\ upstream.invocations > upstream.answered

\* C14: with the cache enabled, embed(t) returns the vector the previous
\* embed(t) returned, whatever embedder calls lie between the two.
EmbeddingStable ==
  [][(/\ last'.op = "embed"
      /\ ~last'.threw
      /\ embedder.cacheEnabled
      /\ embedded.vector[last'.texts[1]] # NoVector)
       => last'.result[1] = embedded.vector[last'.texts[1]]]_vars


(***************************************************************************)
(* The engine with an embedder that may be unavailable                     *)
(***************************************************************************)
\* a call with one user message, forced or not; embedder.embed may reject
AddMemoryFlaky ==
  AddMemoryOf(SingleUserBatches, BOOLEAN, SingleFactReplies,
              { <<1, 0>>, <<4, 1>>, EmbedFail })

\* a retrieve call; embedder.embed(query) may reject
RetrieveFlaky == RetrieveOf({ <<1, 0>>, <<4, 1>>, EmbedFail }, { 1, 2 }, { NoFilters })

NextUnavailable == AddMemoryFlaky \/ RetrieveFlaky

SpecUnavailable == Init /\ [][NextUnavailable]_vars

\* C15: an addMemory call with a valid batch and a retrieve call return
\* normally also when the embedder rejects a call they make.
EmbedderFailureContained ==
  /\ (last.op = "addMemory" /\ ~last.invalid) => ~last.threw
  /\ last.op = "retrieve" => ~last.threw


(***************************************************************************)
(* addMemory with extraction responses of every shape                      *)
(***************************************************************************)
\* a call, forced or not, with any response of the extraction LLM; the
\* embedder works
AddMemoryAnyResponse ==
  AddMemoryStep(MaxBumps * OffsetMs, EpochBatches, BOOLEAN, ResponseReplies,
                { <<1, 0>>, <<4, 1>> }, TRUE)

NextExtract == AddMemoryAnyResponse

SpecExtract == InitAdd /\ [][NextExtract]_vars

\* the call reached the extraction LLM and the LLM call failed or gave a
\* text that holds neither an object with a data array nor a bare array
FailedExtraction ==
  /\ last'.op = "addMemory"
  /\ ~last'.invalid
  /\ last'.llmCalls = 1
  /\ input'.replyKind \notin {"data", "array"}

\* C16: an addMemory call whose extraction fails or gives a malformed reply
\* returns normally with memoryEntriesCreated = 0, embeds nothing and leaves
\* every row of the store as it was.
FailedExtractionNoFacts ==
  [][FailedExtraction =>
       /\ ~last'.threw
       /\ last'.memoryEntriesCreated = 0
       /\ input'.embedCalls = 0
       /\ store' = store
       /\ nextId' = nextId]_vars

\* a reply that is no JSON, received by an engine that holds a record
FailedExtractionWitness ==
  /\ last.op = "addMemory"
  /\ last.llmCalls = 1
  /\ input.replyKind = "notJson"
  /\ ~last.threw
  /\ store # << >>


(***************************************************************************)
(* Phase 2 with decision replies of every shape                            *)
(***************************************************************************)
DecisionReplies ==
  { DeleteReply, MergeReply, UpdateNoTextReply } \cup FailedReplies \cup OddReplies

\* a run of phase 2 in which the decision LLM may fail, answer with a text
\* that is no JSON, or with an object that has no or an unknown action
OfflineUpdateAnyReply ==
  OfflineUpdateWith({ [i \in DOMAIN store |-> i] }, DecisionReplies)

\* phase 1 once, then phase 2 once
NextDecide ==
  \/ (last.op = "init" /\ ConstructUpdateQueue)
  \/ (last.op = "construct" /\ OfflineUpdateAnyReply)

SpecDecide == InitConsolidate /\ [][NextDecide]_vars

\* the target rows of the run that is being made and the replies they got
RunTargets == Targets(store, last'.scoreThreshold)

\* row id is in the store after the step exactly as it was before
RowKept(id) ==
  /\ id \in StoreIds(store')
  /\ RowOf(store', id) = RowOf(store, id)

\* the run applied the decision the LLM gave for target id
DecisionApplied(id) ==
  /\ last'.llm[id] = DeleteReply => id \notin StoreIds(store')
  /\ last'.llm[id] = MergeReply =>
       /\ id \in StoreIds(store')
       /\ RowOf(store', id).memory = "merged"

\* C17: a target whose decision call fails or answers with a text that is
\* no JSON keeps its row; the run calls the LLM for every target of the
\* snapshot and applies the decision of every other target.
FailureIsolated ==
  [][last'.op = "offline" =>
       /\ \A id \in RunTargets : last'.llm[id] \in FailedReplies => RowKept(id)
       /\ { c.target : c \in last'.calls } = RunTargets
       /\ \A id \in RunTargets : DecisionApplied(id)]_vars

\* a run in which the call for the first target failed and the second
\* target was deleted
FailureIsolatedWitness ==
  /\ last.op = "offline"
  /\ \E id1, id2 \in DOMAIN last.llm :
       /\ id1 < id2
       /\ last.llm[id1] \in FailedReplies
       /\ last.llm[id2] = DeleteReply
       /\ id1 \in StoreIds(store)
       /\ id2 \in deletedIds

\* C18: a target whose decision has no action, or an action other than
\* update, delete and ignore, keeps its row.
OddActionIgnored ==
  [][last'.op = "offline" =>
       \A id \in RunTargets :
         (/\ last'.llm[id].kind = "json"
          /\ last'.llm[id].action \notin {"update", "delete", "ignore"})
           => RowKept(id)]_vars

\* a run with one target whose decision has no action and one whose action
\* is unknown
OddActionWitness ==
  /\ last.op = "offline"
  /\ \E id1, id2 \in DOMAIN last.llm :
       /\ last.llm[id1] = NoActionReply
       /\ last.llm[id2] = UnknownActionReply
       /\ {id1, id2} \subseteq StoreIds(store)


(***************************************************************************)
(* Frame of phase 1                                                        *)
(***************************************************************************)
\* the row without its update queue
WithoutQueue(r) == [r EXCEPT !.updateQueue = << >>]

\* C19: a run of phase 1 keeps the rows of the store, their order and every
\* column of every row but updateQueue.
PhaseOneFrame ==
  [][last'.op = "construct" =>
       /\ Len(store') = Len(store)
       /\ \A i \in DOMAIN store : WithoutQueue(store'[i]) = WithoutQueue(store[i])
       /\ nextId' = nextId]_vars

\* phase 1 has given a queue to a record whose memory phase 2 had rewritten
PhaseOneFrameWitness ==
  /\ last.op = "construct"
  /\ \E i \in DOMAIN store :
       /\ store[i].updateQueue # << >>
       /\ store[i].memory = "merged"
       /\ store[i].originalMemory # "merged"

(***************************************************************************)
(* VectorStore.update called directly                                      *)
(***************************************************************************)
\* partial records given to update: permitted columns, columns update never
\* writes, both, and none
UpdatePartials ==
  { [memory |-> "edited"],
    [category |-> "c9", subcategory |-> "s9", hitTime |-> 3,
     updateQueue |-> << [id |-> 1, score |-> Ratio(1, 1)] >>],
    [originalMemory |-> "edited", id |-> 9, timeStamp |-> ToISOString(7),
     floatTimeStamp |-> 7, weekday |-> "Fri", speakerId |-> "zz", speakerName |-> "zz"],
    [memory |-> "edited", originalMemory |-> "edited", floatTimeStamp |-> 7],
    << >> }

UpdateEmbeddings == { NoEmbedding, SomeEmbedding(<<0, 1>>) }

\* update(id, updates, embedding) for a stored id or an id not in the store
UpdateRow ==
  \E id \in 1..nextId, updates \in UpdatePartials, embedding \in UpdateEmbeddings :
    /\ store' = update(store, id, updates, embedding)
    /\ last' = [ op |-> "updateRow", id |-> id, updates |-> updates,
                 embedding |-> embedding ]
    /\ ignoreStreak' = NoStreak
    /\ UNCHANGED << nextId, lastTimestampMap, messageBuffer, messagesUse,
                    metadataGenerate, insertedOrig, deletedIds, input,
                    embedder, upstream, embedded,
                  inFlight, server >>

\* one update call on a seeded store or on what phase 1 makes of it
NextUpdate ==
  \/ (last.op = "init" /\ ConstructUpdateQueue)
  \/ (last.op \in {"init", "construct"} /\ UpdateRow)

SpecUpdate == InitConsolidate /\ [][NextUpdate]_vars

\* the value column f of row r has to hold after update(id, updates, embedding)
ExpectedColumn(r, f, updates, embedding) ==
  IF f \in {"memory", "category", "subcategory", "hitTime", "updateQueue"}
     /\ f \in DOMAIN updates
  THEN updates[f]
  ELSE IF f = "embedding" /\ embedding.some THEN embeddingToBlob(embedding.v)
  ELSE r[f]

\* C20: update(id, partial, embedding) sets the permitted columns the
\* partial names, and the embedding when one is passed, in the row with that
\* id; every other column of that row and every other row stay as they
\* were; without a permitted column and an embedding, or for an id that is
\* not stored, the store stays as it was.
UpdateFrame ==
  [][last'.op = "updateRow" =>
       /\ Len(store') = Len(store)
       /\ \A i \in DOMAIN store :
            IF store[i].id = last'.id
            THEN \A f \in DOMAIN store[i] :
                   store'[i][f] =
                     ExpectedColumn(store[i], f, last'.updates, last'.embedding)
            ELSE store'[i] = store[i]
       /\ ((/\ DOMAIN last'.updates \cap
                 {"memory", "category", "subcategory", "hitTime", "updateQueue"} = {}
            /\ ~last'.embedding.some)
           \/ last'.id \notin StoreIds(store))
            => store' = store]_vars

\* an update naming memory, originalMemory and floatTimeStamp has rewritten
\* the memory of one of two stored rows
UpdateFrameWitness ==
  /\ last.op = "updateRow"
  /\ {"memory", "originalMemory", "floatTimeStamp"} \subseteq DOMAIN last.updates
  /\ Len(store) >= 2
  /\ last.id \in StoreIds(store)
  /\ RowOf(store, last.id).memory = "edited"
  /\ RowOf(store, last.id).originalMemory # "edited"


(***************************************************************************)
(* Queue entries that name a deleted record                                *)
(***************************************************************************)
\* the ids named by the queues of the rows of st
QueuedIds(st) ==
  UNION { { st[i].updateQueue[k].id : k \in DOMAIN st[i].updateQueue } : i \in DOMAIN st }

\* C21: a run of phase 2 calls the LLM only for records that are stored when
\* it starts, so never for an id a queue still names after its record was
\* deleted; it adds no row, and it leaves the updateQueue of every record
\* it does not delete as it was, whatever it deletes.
DanglingTolerated ==
  [][last'.op = "offline" =>
       /\ \A c \in last'.calls : c.target \in StoreIds(store)
       /\ \A c \in last'.calls : c.target \notin deletedIds
       /\ StoreIds(store') \subseteq StoreIds(store)
       /\ \A id \in StoreIds(store') :
            RowOf(store', id).updateQueue = RowOf(store, id).updateQueue]_vars

\* a run of phase 2 made while a stored record's queue named a record that
\* an earlier run had deleted
DanglingWitness ==
  /\ last.op = "offline"
  /\ \E id \in QueuedIds(store) :
       /\ id \in deletedIds
       /\ id \notin DOMAIN last.llm


(***************************************************************************)
(* Properties of the records addMemory creates                             *)
(***************************************************************************)
\* C22: in every stored record, timeStamp and floatTimeStamp denote the same
\* instant.
TimestampsAgree ==
  \A i \in DOMAIN store : DateParse(store[i].timeStamp) = store[i].floatTimeStamp

(***************************************************************************)
(* addMemory with replies of several facts                                 *)
(***************************************************************************)
\* parsed replies of up to MaxReplyFacts facts, in any order of the items
SeveralFactReplies ==
  { [kind |-> "facts", facts |-> fs] : fs \in SeqsUpTo(FactItems, MaxReplyFacts) }

\* a call with one user message, forced or not; the embedder may reject
AddMemorySeveralFacts ==
  AddMemoryStep(MaxBumps * OffsetMs, SingleUserBatches, BOOLEAN, SeveralFactReplies,
                { <<1, 0>>, EmbedFail }, TRUE)

NextRecords == AddMemorySeveralFacts

SpecRecords == InitAdd /\ [][NextRecords]_vars

\* the call was accepted, triggered extraction and returned its result
TriggeredReturn == AcceptedCall /\ Triggered /\ ~last'.threw

\* C23: a triggered addMemory call that returns has appended exactly
\* memoryEntriesCreated rows to the store; when it called the LLM that is one
\* row per fact of the parsed reply, in the order of the reply, and when it
\* did not it is none.
CreatedCount ==
  [][TriggeredReturn =>
       /\ count(store') = count(store) + last'.memoryEntriesCreated
       /\ \A i \in DOMAIN store : store'[i] = store[i]
       /\ last'.llmCalls = 0 => last'.memoryEntriesCreated = 0
       /\ last'.llmCalls = 1 =>
            /\ last'.memoryEntriesCreated = Len(input'.facts)
            /\ \A k \in DOMAIN input'.facts :
                 store'[Len(store) + k].memory = input'.facts[k].fact]_vars

\* one call has created two records from a reply that lists fact f2 first
CreatedCountWitness ==
  /\ last.op = "addMemory"
  /\ ~last.threw
  /\ last.memoryEntriesCreated = 2
  /\ Len(store) = 2
  /\ store[1].memory = "f2"
  /\ store[2].memory = "f1"

(***************************************************************************)
(* retrieve on a seeded store                                              *)
(***************************************************************************)
RetrieveFilterSet ==
  { NoFilters,
    [NoFilters EXCEPT !.hasSpeaker = TRUE, !.speakerId = "u1"],
    [NoFilters EXCEPT !.hasGte = TRUE, !.gte = 1000] }

RetrieveLimits == { 0, 1, 2 }

InitRetrieve ==
  /\ InitSeeded(SeedStores(SearchSeedTimes, { <<4, 1>>, <<0, 1>> },
                           { <<"u1", "">>, <<"a1", "c1">> }))
  /\ input \in [ queryEmbedding : { <<1, 0>>, <<0, 1>> }, limit : RetrieveLimits,
                  filters : RetrieveFilterSet ]

\* retrieve(query, limit, filters); input.queryEmbedding is what
\* embedder.embed(query) returns
RetrieveInput ==
  /\ last.op = "init"
  /\ last' = [ op |-> "retrieve", threw |-> FALSE,
               text |-> retrieveText(store, input.queryEmbedding, input.limit,
                                     input.filters) ]
  /\ UNCHANGED << store, nextId, lastTimestampMap, messageBuffer, messagesUse,
                  metadataGenerate, ignoreStreak, insertedOrig, deletedIds, input,
                  embedder, upstream, embedded,
                  inFlight, server >>

NextRetrieve == RetrieveInput

SpecRetrieve == InitRetrieve /\ [][NextRetrieve]_vars

\* the hits VectorStore.search returns for the arguments of the call
RetrieveHits == search(store, input.queryEmbedding, input.limit, input.filters)

QueueParams == { <<5, 5>>, <<5, 1>>, <<2, 5>>, <<1, 1>> }

QueueSeedStores ==
  UNION { { [i \in 1..n |-> SeedRow(i, c[i][1], c[i][2], <<"u1", "">>)] :
              c \in [1..n -> {0, OffsetMs} \X { <<4, 1>>, <<1, 0>> }] } :
          n \in 0..(MaxSeed + 1) }

InitQueue ==
  /\ InitSeeded(QueueSeedStores)
  /\ input = NoInput

\* one run of phase 1
ConstructOnce == last.op = "init" /\ ConstructUpdateQueueWith(QueueParams)

NextQueue == ConstructOnce

SpecQueue == InitQueue /\ [][NextQueue]_vars

\* what the queue of row i has to be after a run with (topK, keepTopN): the
\* hits of the search for the row's embedding among the records that are
\* not newer, without the row itself, cut to keepTopN
ExpectedQueue(st, i, topK, keepTopN) ==
  LET entry == getAll(st)[i]
      hits == search(st, entry.embedding, topK, LteFilter(entry.floatTimeStamp))
      others == SelectSeq(hits, LAMBDA h : h.id # entry.id)
  IN [k \in 1..Min(keepTopN, Len(others)) |->
        [id |-> others[k].id, score |-> others[k].score]]

\* C25: after a run of phase 1 every record's queue is the search result for
\* its embedding without the record itself, cut to keepTopN; it has at most
\* keepTopN and at most topK entries, names no id twice and has its scores
\* in non-increasing order.
QueueConstruction ==
  [][last'.op = "construct" =>
       \A i \in DOMAIN store' :
         LET queue == store'[i].updateQueue
         IN /\ queue = ExpectedQueue(store, i, last'.topK, last'.keepTopN)
            /\ queue = ExpectedQueue(store', i, last'.topK, last'.keepTopN)
            /\ Len(queue) <= last'.keepTopN
            /\ Len(queue) <= last'.topK
            /\ \A k, l \in DOMAIN queue : k < l =>
                 /\ queue[k].id # queue[l].id
                 /\ ScoreGE(queue[k].score, queue[l].score)]_vars

\* a run with keepTopN = 1 has cut the queue of a record that has two
\* records to compare with, and the same record got both under keepTopN = 5
QueueConstructionWitness ==
  /\ last.op = "construct"
  /\ last.keepTopN = 1
  /\ last.topK = 5
  /\ \E i \in DOMAIN store :
       /\ Len(store[i].updateQueue) = 1
       /\ Len(ExpectedQueue(store, i, 5, 5)) = 2
       /\ ScoreGT(ExpectedQueue(store, i, 5, 5)[1].score,
                  ExpectedQueue(store, i, 5, 5)[2].score)

(***************************************************************************)
(* Targets of a phase-2 run                                                *)
(***************************************************************************)
\* the stored records whose queue names id with a score of at least the
\* threshold
SourcesNaming(st, id, scoreThreshold) ==
  { st[i].id : i \in { j \in DOMAIN st :
       \E k \in DOMAIN st[j].updateQueue :
          /\ st[j].updateQueue[k].id = id
          /\ ScoreGE(st[j].updateQueue[k].score, scoreThreshold) } }

\* the stored records some stored record names in that way
NamedRecords(st, scoreThreshold) ==
  { id \in StoreIds(st) : SourcesNaming(st, id, scoreThreshold) # {} }

\* C26: a run of phase 2, in whatever order it scans the snapshot, calls the
\* LLM once for each stored record that the queue of a stored record names
\* with a score of at least the threshold, shows it the records that name
\* it, and makes no other call.
TargetSelection ==
  [][last'.op = "offline" =>
       /\ { c.target : c \in last'.calls } = NamedRecords(store, last'.scoreThreshold)
       /\ last'.callCount = Cardinality(NamedRecords(store, last'.scoreThreshold))
       /\ \A c \in last'.calls :
            c.sources = SourcesNaming(store, c.target, last'.scoreThreshold)]_vars

\* a run with threshold 1 has called the LLM for a record named with a
\* score of exactly 1, and not for another stored record
TargetSelectionWitness ==
  /\ last.op = "offline"
  /\ last.scoreThreshold = Ratio(1, 1)
  /\ last.callCount = 1
  /\ Len(store) = 2
  /\ \E c \in last.calls :
       /\ c.target \in StoreIds(store)
       /\ \E i \in DOMAIN store : \E k \in DOMAIN store[i].updateQueue :
            /\ store[i].updateQueue[k].id = c.target
            /\ store[i].updateQueue[k].score = [d |-> 1, n |-> 1]

(***************************************************************************)
(* Update decisions of phase 2                                             *)
(***************************************************************************)
\* C27: a target whose decision is update with a non-empty new_memory keeps
\* its row with memory set to new_memory and every other column as it was;
\* a target whose update decision has no or an empty new_memory keeps its
\* row as it was.
UpdateApplied ==
  [][last'.op = "offline" =>
       \A id \in RunTargets :
         (last'.llm[id].kind = "json" /\ last'.llm[id].action = "update") =>
           /\ id \in StoreIds(store')
           /\ RowOf(store', id) =
                IF last'.llm[id].new_memory # ""
                THEN [RowOf(store, id) EXCEPT !.memory = last'.llm[id].new_memory]
                ELSE RowOf(store, id)]_vars

\* a run that rewrote the memory of one target and got an update decision
\* without text for another
UpdateAppliedWitness ==
  /\ last.op = "offline"
  /\ \E id1, id2 \in DOMAIN last.llm :
       /\ last.llm[id1] = MergeReply
       /\ last.llm[id2] = UpdateNoTextReply
       /\ {id1, id2} \subseteq StoreIds(store)
       /\ RowOf(store, id1).memory = "merged"
       /\ RowOf(store, id1).originalMemory # "merged"
       /\ RowOf(store, id1).updateQueue # << >>
       /\ RowOf(store, id2).memory # ""

(***************************************************************************)
(* addMemory with messages of every role                                   *)
(***************************************************************************)
\* a message of the role with no speaker name, so that its prompt line
\* shows the role
RoleMessage(role) ==
  [Message("user", MarkerEpoch) EXCEPT !.role = role, !.speakerName = "", !.content = role]

RoleBatches ==
  { b \in SeqsUpTo({ RoleMessage(role) : role \in {"user", "assistant", "system"} },
                   MaxBatch) : b # << >> }

AddMemoryAnyRole ==
  AddMemoryStep(MaxBumps * OffsetMs, RoleBatches, BOOLEAN, SingleFactReplies,
                { <<1, 0>> }, TRUE)

NextRoles == AddMemoryAnyRole

SpecRoles == InitAdd /\ [][NextRoles]_vars

\* the roles of the buffered messages once the batch is appended
BufferedRoles ==
  [i \in DOMAIN messageBuffer |-> messageBuffer[i].role]
    \o [i \in DOMAIN input'.messages |-> input'.messages[i].role]

\* C28: the prompt of the extraction call has one line for each buffered
\* message whose role the policy allows, in buffer order, and no other
\* line; a triggered call that finds no such message calls no LLM, creates
\* no record and empties the buffer.
RoleFilter ==
  [][(AcceptedCall /\ Triggered) =>
       LET allowed == SelectSeq(BufferedRoles,
                                LAMBDA role : role \in allowedRoles(messagesUse))
       IN /\ last'.llmCalls = 1 =>
               /\ allowed # << >>
               /\ [i \in DOMAIN input'.prompt |-> input'.prompt[i].speaker] = allowed
               /\ \A i \in DOMAIN input'.prompt :
                    /\ input'.prompt[i].speaker # "system"
                    /\ input'.prompt[i].content = input'.prompt[i].speaker
          /\ allowed = << >> =>
               /\ last'.llmCalls = 0
               /\ input'.prompt = << >>
               /\ store' = store
               /\ messageBuffer' = << >>]_vars

\* under user_only, a buffer with an assistant or system message and a user
\* message gave a prompt of one line
RoleFilterWitness ==
  /\ last.op = "addMemory"
  /\ messagesUse = "user_only"
  /\ last.llmCalls = 1
  /\ Len(input.prompt) = 1
  /\ input.prompt[1].speaker = "user"
  /\ last.normalized = 2
  /\ \E i \in DOMAIN input.messages : input.messages[i].role # "user"

\* a triggered call whose buffer held no message of an allowed role
RoleFilterNoneWitness ==
  /\ last.op = "addMemory"
  /\ ~last.invalid
  /\ input.forceExtract
  /\ last.llmCalls = 0
  /\ metadataGenerate
  /\ messageBuffer = << >>

(***************************************************************************)
(* the records made from the facts of one reply                            *)
(***************************************************************************)
\* batches of user and assistant messages of one session marker
SpeakerBatches ==
  { b \in SeqsUpTo({ Message(role, MarkerEpoch) : role \in {"user", "assistant"} },
                   MaxBatch) : b # << >> }

AddMemorySpeakers ==
  AddMemoryStep(MaxBumps * OffsetMs, SpeakerBatches, BOOLEAN, SeveralFactReplies,
                { <<1, 0>> }, TRUE)

NextSynthesis == AddMemorySpeakers

SpecSynthesis == InitAdd /\ [][NextSynthesis]_vars

\* the messages the call hands to createMemoryEntries
ProcessedMessages ==
  SelectSeq(messageBuffer
              \o assignSequenceNumbers(normalizeMessages(lastTimestampMap,
                                                         input'.messages).out),
            LAMBDA msg : msg.role \in allowedRoles(messagesUse))

\* the processed messages whose floor(sequenceNumber / 2) is the source id
CitedMessages(sourceId) ==
  { ProcessedMessages[i] : i \in { j \in DOMAIN ProcessedMessages :
                                     ProcessedMessages[j].sequenceNumber \div 2 = sourceId } }

ClockReadings == { now[k] : now \in NowPairs, k \in 1..2 }

\* C29: the record created for the k-th fact of the reply has an id no
\* other record has or had, memory = originalMemory = the fact, hitTime 0 and
\* an empty updateQueue; its timeStamp, weekday, speakerId and speakerName
\* are those of one processed message whose floor(sequenceNumber / 2) is the
\* fact's source id, and when there is no such message its timestamps are
\* readings of the clock and its speaker fields are empty.
RecordSynthesis ==
  [][(AcceptedCall /\ last'.llmCalls = 1 /\ ~last'.threw) =>
       \A k \in DOMAIN input'.facts :
         LET row == store'[Len(store) + k]
             fact == input'.facts[k]
         IN /\ row.id \notin StoreIds(store) \cup deletedIds
            /\ \A j \in DOMAIN store' : store'[j].id = row.id => j = Len(store) + k
            /\ row.memory = fact.fact
            /\ row.originalMemory = fact.fact
            /\ row.hitTime = 0
            /\ row.updateQueue = << >>
            /\ IF CitedMessages(fact.sourceId) # {}
               THEN \E msg \in CitedMessages(fact.sourceId) :
                      /\ row.timeStamp = msg.timeStamp
                      /\ row.floatTimeStamp = DateParse(msg.timeStamp)
                      /\ row.weekday = msg.weekday
                      /\ row.speakerId = msg.speakerId
                      /\ row.speakerName = msg.speakerName
               ELSE /\ DateParse(row.timeStamp) \in ClockReadings
                    /\ row.floatTimeStamp \in ClockReadings
                    /\ row.speakerId = ""
                    /\ row.speakerName = ""]_vars

\* under user_only a call with an assistant message and then a user message
\* has made a record for source id 0 from the user message and a record for
\* source id 1 with the defaults
RecordSynthesisWitness ==
  /\ last.op = "addMemory"
  /\ messagesUse = "user_only"
  /\ last.memoryEntriesCreated = 2
  /\ Len(input.messages) = 2
  /\ input.messages[1].role = "assistant"
  /\ Len(store) = 2
  /\ \E i, j \in DOMAIN store :
       /\ store[i].memory = "f1" /\ store[i].speakerName = "Alice"
       /\ store[j].memory = "f2" /\ store[j].speakerName = ""

(***************************************************************************)
(* timestamps across session markers                                       *)
(***************************************************************************)
\* C30: the messages one normalizer has normalized all have different
\* timeStamps: the messages of a call differ from each other, and from the
\* message each marker was given last before the call.
StrictTotalOrder ==
  [][last'.op = "normalize" =>
       /\ \A i, j \in DOMAIN last'.out :
            i # j => last'.out[i].timeStamp # last'.out[j].timeStamp
       /\ \A i \in DOMAIN last'.out : \A m \in ValidMarkers :
            lastTimestampMap[m] # NoDate =>
              DateParse(last'.out[i].timeStamp) # lastTimestampMap[m]]_vars

(***************************************************************************)
(* reply items whose source_id is of any JSON type                         *)
(***************************************************************************)
SourceIdValues ==
  { JsonNumber(0), JsonNumber(1), JsonString("0"), JsonString("abc"),
    JsonString(""), JsonNull }

TypedResponses ==
  [ kind : {"data", "array"}, fenced : {FALSE},
    items : { << [source_id |-> v, fact |-> "f1"] >> : v \in SourceIdValues } ]

TypedReplies == { metaTextExtract(response) : response \in TypedResponses }

AddMemoryTyped ==
  AddMemoryStep(MaxBumps * OffsetMs, SingleUserBatches, BOOLEAN, TypedReplies,
                { <<1, 0>>, EmbedFail }, TRUE)

NextTyped == AddMemoryTyped

SpecTyped == InitAdd /\ [][NextTyped]_vars

\* C31: a call whose reply holds an item with a source_id that is no number
\* (Number() made NaN of it) stores no record.
TypeMismatchRejected ==
  [][(AcceptedCall /\ last'.llmCalls = 1
        /\ \E k \in DOMAIN input'.facts : input'.facts[k].sourceId = NaN)
       => store' = store]_vars

(***************************************************************************)
(* phase 2 run twice with the same decisions                               *)
(***************************************************************************)
\* offlineUpdateAllEntries called again with the threshold of the run
\* before; the LLM gives each target the reply it gave it in that run
OfflineUpdateAgain ==
  /\ last.op = "offline"
  /\ Targets(store, last.scoreThreshold) \subseteq DOMAIN last.llm
  /\ \E r \in { offlineUpdateAllEntries(store, getAll(store), last.llm,
                                        last.scoreThreshold) } :
       /\ store' = r.st
       /\ deletedIds' = deletedIds \cup r.deleted
       /\ last' = [ op |-> "offlineAgain",
                    scoreThreshold |-> last.scoreThreshold,
                    llm |-> last.llm,
                    calls |-> CallSet(r.log),
                    callCount |-> Len(r.log) ]
  /\ UNCHANGED << nextId, lastTimestampMap, messageBuffer, messagesUse, metadataGenerate,
                  ignoreStreak, insertedOrig, input, embedder, upstream, embedded,
                  inFlight, server >>

NextConverge ==
  \/ (last.op = "init" /\ ConstructUpdateQueue)
  \/ (last.op = "construct" /\ OfflineUpdate)
  \/ OfflineUpdateAgain

SpecConverge == InitConsolidate /\ [][NextConverge]_vars

\* C32: a second run of phase 2 right after a first one, with the same
\* decision per target, leaves the store as the first run left it.
PhaseTwoConverges ==
  [][last'.op = "offlineAgain" => store' = store]_vars

\* the second run has asked the LLM again about a target the first run
\* rewrote
PhaseTwoConvergesWitness ==
  /\ last.op = "offlineAgain"
  /\ \E c \in last.calls :
       /\ last.llm[c.target] = MergeReply
       /\ RowOf(store, c.target).memory = "merged"

(***************************************************************************)
(* phase 1 run again, or after a run that stopped partway                  *)
(***************************************************************************)
\* a run of constructUpdateQueueAllEntries that is abandoned after the
\* first done entries of its snapshot; input keeps what the run was
ConstructAbandoned ==
  \E params \in QueueParams, done \in 0..Len(store) :
    /\ last.op = "init"
    /\ store' = ConstructLoop(SubSeq(getAll(store), 1, done), 1, store,
                              params[1], params[2])
    /\ last' = [ op |-> "abandoned", topK |-> params[1], keepTopN |-> params[2] ]
    /\ input' = [ done |-> done, topK |-> params[1], keepTopN |-> params[2] ]
    /\ ignoreStreak' = NoStreak
    /\ UNCHANGED << nextId, lastTimestampMap, messageBuffer, messagesUse,
                    metadataGenerate, insertedOrig, deletedIds, embedder, upstream,
                    embedded,
                  inFlight, server >>

ConstructAnew == ConstructUpdateQueueWith(QueueParams)

NextResume ==
  \/ ConstructAbandoned
  \/ ConstructAnew

\* the seeded stores whose first record is the oldest
InitResume ==
  /\ InitQueue
  /\ Len(store) >= 2
  /\ store[1].floatTimeStamp = 0
  /\ store[1].embedding = embeddingToBlob(<<1, 0>>)

SpecResume == InitResume /\ [][NextResume]_vars

\* the store with every queue emptied
QueuesCleared(st) == [i \in DOMAIN st |-> [st[i] EXCEPT !.updateQueue = << >>]]

\* C33: a complete run of phase 1 gives every record the queue one complete
\* run gives it on the same records without any queue: the queues a run
\* before it or a run abandoned partway has written do not count, and a run
\* with the parameters of the complete run before it changes nothing.
PhaseOneOverwrites ==
  [][last'.op = "construct" =>
       /\ store' = constructUpdateQueueAllEntries(QueuesCleared(store),
                                                  last'.topK, last'.keepTopN)
       /\ (last.op = "construct" /\ last.topK = last'.topK
             /\ last.keepTopN = last'.keepTopN) => store' = store]_vars

\* a complete run with keepTopN = 5 after a run with keepTopN = 1 that was
\* abandoned when some record had its queue
PhaseOneOverwritesWitness ==
  /\ last.op = "construct"
  /\ last.keepTopN = 5
  /\ last.topK = 5
  /\ "done" \in DOMAIN input
  /\ input.done = 1
  /\ input.keepTopN = 1
  /\ \E i \in DOMAIN store : Len(store[i].updateQueue) = 2

(***************************************************************************)
(* sequence numbers of the buffered messages                               *)
(***************************************************************************)
\* the buffer as the call that is being made filters it
BufferAtExtraction ==
  messageBuffer \o assignSequenceNumbers(normalizeMessages(lastTimestampMap,
                                                           input'.messages).out)

\* C34: when a call gets to the extraction, the buffered messages have
\* sequence numbers that increase in buffer order.
SequenceNumbersIncrease ==
  [][(AcceptedCall /\ last'.llmCalls = 1) =>
       \A i, j \in DOMAIN BufferAtExtraction :
         i < j => BufferAtExtraction[i].sequenceNumber
                    < BufferAtExtraction[j].sequenceNumber]_vars

(***************************************************************************)
(* size of the buffer after a call                                         *)
(***************************************************************************)
\* C35: after an addMemory call that returns, the buffer holds fewer
\* messages than the trigger depth, and none when the call was forced or
\* found the buffer at the trigger depth.
BufferBound ==
  [][(AcceptedCall /\ ~last'.threw) =>
       /\ Len(messageBuffer') < 10
       /\ Triggered => messageBuffer' = << >>
       /\ ~Triggered => Len(messageBuffer') = Len(messageBuffer) + Len(input'.messages)]_vars

\* a call that was not forced has filled the buffer to the trigger depth
\* with metadataGenerate off, and has left it empty
BufferBoundWitness ==
  /\ last.op = "addMemory"
  /\ ~last.invalid
  /\ ~last.threw
  /\ ~input.forceExtract
  /\ last.normalized >= 1
  /\ ~metadataGenerate
  /\ messageBuffer = << >>

(***************************************************************************)
(* the normalizer's cursors after a rejected batch                         *)
(***************************************************************************)
\* C36: an addMemory call whose batch is rejected for an invalid message
\* leaves the instant kept for every session marker as it was.
CursorKeptOnRejection ==
  [][(last'.op = "addMemory" /\ last'.invalid)
       => lastTimestampMap' = lastTimestampMap]_vars

(***************************************************************************)
(* the buffer after a failed extraction                                    *)
(***************************************************************************)
\* C37: when the extraction LLM call fails or gives a text that is no JSON,
\* the messages that were on the prompt stay in the buffer.
MessagesKeptOnFailure ==
  [][(FailedExtraction /\ input'.replyKind \in {"throws", "notJson"}) =>
       /\ Len(messageBuffer') >= Len(input'.prompt)
       /\ messageBuffer' # << >>]_vars

(***************************************************************************)
(* the prompts of successive extraction calls                              *)
(***************************************************************************)
\* C38: no message is on the prompt of two extraction calls: the lines of
\* the prompt of a call and those of the call before it are lines of
\* different messages (a message is known by the timeStamp on its line).
ExtractedAtMostOnce ==
  [][(last.op = "addMemory" /\ last'.op = "addMemory") =>
       \A i \in DOMAIN input.prompt : \A j \in DOMAIN input'.prompt :
         input.prompt[i].timePrefix # input'.prompt[j].timePrefix]_vars

(***************************************************************************)
(* addMemory calls that overlap                                            *)
(***************************************************************************)
\* addMemory is an async function: a call runs alone up to an await and
\* other calls of the same engine run while it waits.  It waits for the
\* reply of the extraction LLM and, for every fact, for the embedder and the
\* store.  input keeps the timeStamps of the messages the calls have
\* accepted and of the messages that were on a prompt.
InitInterleaved ==
  /\ store = << >>
  /\ nextId = 1
  /\ lastTimestampMap = [m \in ValidMarkers |-> NoDate]
  /\ messageBuffer = << >>
  /\ messagesUse = "hybrid"
  /\ metadataGenerate = TRUE
  /\ last = [op |-> "init"]
  /\ ignoreStreak = NoStreak
  /\ insertedOrig = << >>
  /\ deletedIds = {}
  /\ input = [accepted |-> {}, prompted |-> {}]
  /\ InitEmbedder(TRUE)
  /\ InitServer

TimeStampsOf(messages) == { messages[i].timeStamp : i \in DOMAIN messages }

\* A call from its start to its return or to the await of metaTextExtract:
\* the batch is normalized and pushed, the buffer filtered and the prompt
\* sent.
AddMemoryBegin ==
  \E messages \in SpeakerBatches, forceExtract \in BOOLEAN :
    \E norm \in { normalizeMessages(lastTimestampMap, messages) } :
      LET buf == BufferAfterPush(messageBuffer, norm)
          shouldExtract == forceExtract \/ Len(buf) >= BufferTrigger
          messagesToProcess == filterMessagesByRole(messagesUse, buf)
          waits == shouldExtract /\ messagesToProcess # << >> /\ metadataGenerate
          prompt == concatenateMessages(messagesToProcess, messagesUse)
      IN /\ Len(inFlight) < MaxCalls
         /\ \A m \in ValidMarkers : norm.map[m] <= (MaxBumps + 1) * OffsetMs
         /\ lastTimestampMap' = norm.map
         /\ messageBuffer' = IF shouldExtract /\ ~waits THEN << >> ELSE buf
         /\ inFlight' = IF waits
                        THEN Append(inFlight, [ stage |-> "llm",
                                                messagesToProcess |-> messagesToProcess,
                                                facts |-> << >> ])
                        ELSE inFlight
         /\ input' = [ accepted |-> input.accepted \cup TimeStampsOf(norm.out),
                       prompted |-> IF waits
                                    THEN input.prompted \cup
                                           { prompt[i].timePrefix[1] : i \in DOMAIN prompt }
                                    ELSE input.prompted ]
         /\ last' = [ op |-> "addMemoryBegin", forceExtract |-> forceExtract,
                      waits |-> waits ]
         /\ UNCHANGED << store, nextId, messagesUse, metadataGenerate, ignoreStreak,
                         insertedOrig, deletedIds, embedder, upstream, embedded, server >>

\* the sequence without its k-th element
RemoveAt(seq, k) == SubSeq(seq, 1, k - 1) \o SubSeq(seq, k + 1, Len(seq))

\* A waiting call gets the result of metaTextExtract.  With no fact it runs
\* to its end and clears the buffer; with facts it goes on to the embedder.
AddMemoryReply ==
  \E k \in DOMAIN inFlight, reply \in SingleFactReplies :
    /\ inFlight[k].stage = "llm"
    /\ IF reply.facts = << >>
       THEN /\ messageBuffer' = << >>
            /\ inFlight' = RemoveAt(inFlight, k)
       ELSE /\ messageBuffer' = messageBuffer
            /\ inFlight' = [inFlight EXCEPT ![k] = [@ EXCEPT !.stage = "embed",
                                                              !.facts = reply.facts]]
    /\ last' = [ op |-> "addMemoryReply", replyKind |-> reply.kind ]
    /\ UNCHANGED << store, nextId, lastTimestampMap, messagesUse, metadataGenerate,
                    ignoreStreak, insertedOrig, deletedIds, input, embedder, upstream,
                    embedded, server >>

\* A call gets the embedding of its next fact and inserts the record, or
\* the embedder rejects and the call throws.  After its last fact the call
\* clears the buffer and returns.
AddMemoryFact ==
  \E k \in DOMAIN inFlight, embedding \in { <<1, 0>>, EmbedFail }, now \in NowPairs :
    /\ inFlight[k].stage = "embed"
    /\ Len(store) < MaxRecords
    /\ LET call == inFlight[k]
           entry == EntryForFact(nextId, Head(call.facts), call.messagesToProcess, now)
           done == Len(call.facts) = 1
       IN IF embedding = EmbedFail
          THEN /\ inFlight' = RemoveAt(inFlight, k)
               /\ UNCHANGED << store, nextId, messageBuffer, insertedOrig >>
          ELSE /\ store' = insert(store, entry, embedding)
               /\ nextId' = nextId + 1
               /\ insertedOrig' = [id \in (DOMAIN insertedOrig) \cup {entry.id} |->
                                     IF id \in DOMAIN insertedOrig THEN insertedOrig[id]
                                     ELSE entry.originalMemory]
               /\ messageBuffer' = IF done THEN << >> ELSE messageBuffer
               /\ inFlight' = IF done THEN RemoveAt(inFlight, k)
                              ELSE [inFlight EXCEPT ![k] = [@ EXCEPT !.facts = Tail(@)]]
    /\ last' = [ op |-> "addMemoryFact", threw |-> embedding = EmbedFail ]
    /\ UNCHANGED << lastTimestampMap, messagesUse, metadataGenerate, ignoreStreak,
                    deletedIds, input, embedder, upstream, embedded, server >>

NextInterleaved ==
  \/ AddMemoryBegin
  \/ AddMemoryReply
  \/ AddMemoryFact

SpecInterleaved == InitInterleaved /\ [][NextInterleaved]_vars

\* C39: once every call has returned, each message a call accepted is in
\* the buffer or was on an extraction prompt.
NoneDiscarded ==
  inFlight = << >> =>
    \A ts \in input.accepted :
      \/ ts \in input.prompted
      \/ \E i \in DOMAIN messageBuffer : messageBuffer[i].timeStamp = ts

(***************************************************************************)
(* The MCP server: getLiteMemInstance and handleToolCall                   *)
(***************************************************************************)
\* server.liteMemInstance is "null" or "set"; server.initialized tells that
\* tursoClient.initialize() has created the table of the instance;
\* server.handlers holds the tool calls under way, each with its tool and
\* the await it is at: "initialize" inside getLiteMemInstance, "instance"
\* when getLiteMemInstance has handed it the instance, or "embed" when its
\* retrieve waits for the embedding of the query.  The history field
\* ranUninitialized tells that an engine operation has run before the
\* table was made.
Tools == { "getStatistics", "offlineUpdate", "retrieveMemory" }

\* A tool call arrives and its handler calls getLiteMemInstance.  With no
\* instance yet it makes one, assigns it to liteMemInstance and awaits
\* initialize(); else it is handed liteMemInstance as it is.
ToolCallArrives ==
  \E tool \in Tools :
    /\ Len(server.handlers) < MaxCalls
    /\ server' =
         IF server.liteMemInstance = "null"
         THEN [server EXCEPT !.liteMemInstance = "set",
                             !.handlers = Append(@, [tool |-> tool, at |-> "initialize"])]
         ELSE [server EXCEPT !.handlers = Append(@, [tool |-> tool, at |-> "instance"])]
    /\ last' = [ op |-> "toolCall", tool |-> tool,
                 handedInitialized |-> server.liteMemInstance = "set" /\ server.initialized ]
    /\ UNCHANGED << store, nextId, lastTimestampMap, messageBuffer, messagesUse,
                    metadataGenerate, ignoreStreak, insertedOrig, deletedIds, input,
                    embedder, upstream, embedded, inFlight >>

\* initialize() of the instance completes: the table is made and the
\* handler that awaited it is handed the instance
InitializeCompletes ==
  \E k \in DOMAIN server.handlers :
    /\ server.handlers[k].at = "initialize"
    /\ server' = [server EXCEPT !.initialized = TRUE,
                                !.handlers[k].at = "instance"]
    /\ last' = [ op |-> "initialized", tool |-> server.handlers[k].tool ]
    /\ UNCHANGED << store, nextId, lastTimestampMap, messageBuffer, messagesUse,
                    metadataGenerate, ignoreStreak, insertedOrig, deletedIds, input,
                    embedder, upstream, embedded, inFlight >>

\* initialize() rejects: the handler that awaited it answers with an error;
\* liteMemInstance stays assigned
InitializeFails ==
  \E k \in DOMAIN server.handlers :
    /\ server.handlers[k].at = "initialize"
    /\ server' = [server EXCEPT !.handlers = RemoveAt(@, k)]
    /\ last' = [ op |-> "initializeFailed", tool |-> server.handlers[k].tool ]
    /\ UNCHANGED << store, nextId, lastTimestampMap, messageBuffer, messagesUse,
                    metadataGenerate, ignoreStreak, insertedOrig, deletedIds, input,
                    embedder, upstream, embedded, inFlight >>

\* A retrieveMemory handler that holds the instance calls retrieve, which
\* awaits the embedding of the query before it reads the store.
RetrieveAwaitsEmbedding ==
  \E k \in DOMAIN server.handlers :
    /\ server.handlers[k].at = "instance"
    /\ server.handlers[k].tool = "retrieveMemory"
    /\ server' = [server EXCEPT !.handlers[k].at = "embed"]
    /\ last' = [ op |-> "retrieveCalled", tool |-> "retrieveMemory" ]
    /\ UNCHANGED << store, nextId, lastTimestampMap, messageBuffer, messagesUse,
                    metadataGenerate, ignoreStreak, insertedOrig, deletedIds, input,
                    embedder, upstream, embedded, inFlight >>

\* A handler runs the store statements of its engine operation and answers:
\* getMemoryCount for getStatistics, the two consolidation phases for
\* offlineUpdate, the search of retrieve once the embedding is there.
\* Without the table the first statement fails and the handler answers with
\* an error.
ToolHandlerRuns ==
  \E k \in DOMAIN server.handlers :
    LET tool == server.handlers[k].tool
    IN /\ \/ server.handlers[k].at = "instance" /\ tool # "retrieveMemory"
          \/ server.handlers[k].at = "embed"
       /\ server' = [server EXCEPT !.handlers = RemoveAt(@, k),
                                   !.ranUninitialized = @ \/ ~server.initialized]
       /\ store' = IF server.initialized /\ tool = "offlineUpdate"
                   THEN offlineUpdateAllEntries(
                          constructUpdateQueueAllEntries(store, 20, 10),
                          getAll(constructUpdateQueueAllEntries(store, 20, 10)),
                          << >>, Ratio(8, 10)).st
                   ELSE store
       /\ last' = [ op |-> "toolAnswer", tool |-> tool,
                    status |-> IF server.initialized THEN "success" ELSE "error",
                    memoryCount |-> count(store) ]
       /\ UNCHANGED << nextId, lastTimestampMap, messageBuffer, messagesUse,
                       metadataGenerate, ignoreStreak, insertedOrig, deletedIds, input,
                       embedder, upstream, embedded, inFlight >>

NextServer ==
  \/ ToolCallArrives
  \/ RetrieveAwaitsEmbedding
  \/ InitializeCompletes
  \/ InitializeFails
  \/ ToolHandlerRuns

SpecServer == Init /\ [][NextServer]_vars

\* C40: a handler is handed the instance only when its initialize() has
\* completed, and no engine operation has run without the table.
InitializedBeforeUse ==
  /\ \A k \in DOMAIN server.handlers :
       server.handlers[k].at \in {"instance", "embed"} => server.initialized
  /\ ~server.ranUninitialized

====
